---- MODULE Spec2Model ----
(***************************************************************************)
(* Job orchestration core of subtitle-cockpit: the durable job store       *)
(* (JobQueue over SQLite), the dispatcher loop with its timeout sweep, the *)
(* per-job execution threads, and the translation failover loop.           *)
(***************************************************************************)
EXTENDS Integers, Sequences, FiniteSets, TLC

(* ------------------------------ bounds -------------------------------- *)

\* number of jobs ever enqueued in one behaviour
MaxJobs == 2
\* number of times the wall clock advances in one behaviour
MaxTicks == 1
\* largest value the settings endpoints give max_parallel in the model
MaxParallel == 2
\* largest number of credentials configured for one provider
MaxKeys == 3
\* largest number of languages in subtitle_search_languages
MaxLangs == 2
\* largest number of subtitles one search returns
MaxResults == 2
\* largest number of video files next to the subtitle of a sync job
MaxVideos == 2
\* how many seconds of loop operation one behaviour of the idle loop covers
MaxLoopSeconds == 3620

(* ----------------------------- constants ------------------------------ *)

STATUS_PENDING == "pending"
STATUS_RUNNING == "running"
STATUS_COMPLETED == "completed"
STATUS_FAILED == "failed"
STATUS_TIMEOUT == "timeout"

Statuses ==
  {STATUS_PENDING, STATUS_RUNNING, STATUS_COMPLETED, STATUS_FAILED, STATUS_TIMEOUT}

TerminalStatuses == {STATUS_COMPLETED, STATUS_FAILED, STATUS_TIMEOUT}

JOB_TYPE_EXTRACT == "extract"
JOB_TYPE_SUP_TO_SRT == "sup_to_srt"
JOB_TYPE_TRANSLATE == "translate"
JOB_TYPE_SEARCH_SUBTITLES == "search_subtitles"
JOB_TYPE_SYNC_SUBTITLES == "sync_subtitles"
JOB_TYPE_PUBLISH_SUBTITLES == "publish_subtitles"

KnownJobTypes ==
  {JOB_TYPE_EXTRACT, JOB_TYPE_SUP_TO_SRT, JOB_TYPE_TRANSLATE,
   JOB_TYPE_SEARCH_SUBTITLES, JOB_TYPE_SYNC_SUBTITLES, JOB_TYPE_PUBLISH_SUBTITLES}

\* a job type the dispatch table of _execute_job does not know
UnknownJobType == "bogus"

\* a params dict, by its keys: the empty dict and a dict with one entry
NoParams == {}
SomeParams == {"subtitle_stream"}

\* the file_path of a job on a video file, and of a job on a subtitle file
VideoPath == "movie.mkv"
SubtitlePath == "movie.en.srt"

\* the calls of add_job the model makes
EnqueuedJobs ==
  {[job_type |-> JOB_TYPE_EXTRACT, file_path |-> VideoPath, params |-> SomeParams],
   [job_type |-> UnknownJobType, file_path |-> VideoPath, params |-> NoParams]}

\* the table JOB_TIMEOUTS, in seconds
JOB_TIMEOUTS(t) ==
  CASE t = JOB_TYPE_EXTRACT -> 300
    [] t = JOB_TYPE_SUP_TO_SRT -> 600
    [] t = JOB_TYPE_TRANSLATE -> 1800
    [] t = JOB_TYPE_SEARCH_SUBTITLES -> 600
    [] t = JOB_TYPE_SYNC_SUBTITLES -> 1800
    [] t = JOB_TYPE_PUBLISH_SUBTITLES -> 600

\* the default of JOB_TIMEOUTS.get(job_type, 600)
DefaultTimeout == 600

\* the retention cleanup_old_jobs is called with, in days
CleanupDays == 7

SecondsPerDay == 24 * 3600

\* SQL NULL in a TEXT column
NULL == "NULL"

\* SQL NULL in the params column, whose texts are tuples
NoText == <<>>

\* json.dumps(v): the text that encodes v
json_dumps(v) == <<v>>

\* json.loads(text) returns rather than raises
CanDecode(text) == Len(text) = 1

\* json.loads(text)
json_loads(text) == text[1]

\* SQL NULL in a timestamp column
NoTime == 0 - 1

\* the wall clock advances in steps just longer than the smallest timeout
TickStep == JOB_TIMEOUTS(JOB_TYPE_EXTRACT) + 1

(* ------------------------------- state -------------------------------- *)

VARIABLES
  jobs,            \* the jobs table: id -> row, for the rows that exist
  nextId,          \* the AUTOINCREMENT counter: the id the next INSERT gets
  clock,           \* datetime.now(), in seconds since the queue was built
  ticks,           \* how often the clock has advanced
  max_parallel,    \* JobQueue.max_parallel
  running,         \* JobQueue.running
  dpc,             \* where the dispatcher thread is in _process_jobs
  running_jobs,    \* _check_timeouts: the rows still to be examined
  running_count,   \* _process_jobs: len(get_running_jobs())
  pending_jobs,    \* _process_jobs: the rows still to be started
  exec,            \* the execution threads: id -> [state, job, outcome]
  delpc,           \* where the thread serving DELETE /api/jobs/<id> is
  delId,           \* the id that thread was asked to delete
  delRet,          \* what delete_job is about to return
  swept,           \* the ids the sweep's query found running and overdue
  dfault,          \* the dispatcher's last iteration ended in its except clause
  settings_file,   \* the settings file: the persisted configuration
  settings0,       \* the settings file as the translate job found it
  settings,        \* _execute_translate: the dict loaded from the settings file
  provider,        \* _translate_with_failover: provider
  attempt,         \* _translate_with_failover: attempt
  switched,        \* _translate_with_failover: switched, and to what
  tpc,             \* where the thread of the translate job is
  success,         \* what _translate_with_failover returns: success
  message,         \* what _translate_with_failover returns: message
  error_msg,       \* _translate_with_failover: error_msg of the last call
  calls,           \* how the calls of _run_local_translation ended, in order
  deleted,         \* what the last call of cleanup_old_jobs returned to its caller
  hpc,             \* where the handler of a search or sync job is
  hloc,            \* that handler's locals and what it finds around it
  queues,          \* the JobQueue objects built so far: [running, processor_thread]
  _job_queue,      \* job_queue.py: the module-level _job_queue, 0 for None
  threads,         \* the threads the queues started: dispatcher loops and units
  callers,         \* the threads calling get_job_queue, start_processor, stop_processor
  stopped          \* the queues whose stop_processor returned, with no start since
                   \* (neither a call of start_processor nor a thread started)

\* the threads that call into the queue from outside
MaxCallers == 2
Callers == 1..MaxCallers
\* a caller that is in no call
IdleCaller == [pc |-> "idle", call |-> "none", queue |-> 0, thread |-> 0, ret |-> 0]
\* the queue of this specification is the one of the variables running and
\* dpc: no object is built, started or stopped through the module's functions
NoProcess ==
  /\ queues = <<>>
  /\ _job_queue = 0
  /\ threads = <<>>
  /\ callers = [c \in Callers |-> IdleCaller]
  /\ stopped = {}

\* the wall clock
timeVars == <<clock, ticks>>
\* the fields of the JobQueue object
queueVars == <<max_parallel, running>>
\* the dispatcher thread
loopVars == <<dpc, running_jobs, running_count, pending_jobs, swept, dfault>>
\* the thread serving a DELETE request
deleteVars == <<delpc, delId, delRet>>

\* the settings file and the thread of a translate job
failoverVars ==
  <<settings_file, settings0, settings, provider, attempt, switched, tpc,
    success, message, error_msg, calls>>

\* a caller of cleanup_old_jobs, and the handler of a search or sync job
unitVars == <<deleted, hpc, hloc>>
\* the JobQueue objects of the process, their threads and their callers
processVars == <<queues, _job_queue, threads, callers, stopped>>

vars ==
  <<jobs, nextId, exec, timeVars, unitVars, processVars, queueVars, loopVars,
    deleteVars, failoverVars>>

(* ------------------------------ job store ----------------------------- *)

Ids == DOMAIN jobs

\* add_job: the row INSERT writes
NewJobRow(job_type, file_path, params, now) ==
  [job_type |-> job_type, status |-> STATUS_PENDING, file_path |-> file_path,
   params |-> IF params # NoParams THEN json_dumps(params) ELSE NoText,
   created_at |-> now,
   started_at |-> NoTime, completed_at |-> NoTime,
   error_message |-> NULL, result |-> NULL]

\* the rowid of a table without AUTOINCREMENT: one more than the largest
\* rowid in the table, whatever ids deleted rows had
RowidAfterLargest(tbl, next) ==
  IF DOMAIN tbl = {} THEN 1
  ELSE (CHOOSE i \in DOMAIN tbl : \A k \in DOMAIN tbl : k <= i) + 1

\* cursor.lastrowid after the INSERT into id INTEGER PRIMARY KEY AUTOINCREMENT:
\* one more than the largest id the table has ever held
lastrowid(tbl, next) == next

\* the jobs table with one more row
InsertRow(tbl, id, row) ==
  [i \in (DOMAIN tbl) \cup {id} |-> IF i = id THEN row ELSE tbl[i]]

\* the jobs table without the rows in gone
DeleteRows(tbl, gone) == [i \in (DOMAIN tbl) \ gone |-> tbl[i]]

\* an update that stamps completed_at for completed and failed only
UpdateWithoutTimeoutStamp(tbl, job_id, status, error_message, result, now) ==
  IF job_id \notin DOMAIN tbl
  THEN tbl
  ELSE [tbl EXCEPT ![job_id] =
         [@ EXCEPT
            !.status = status,
            !.started_at = IF status = STATUS_RUNNING THEN now ELSE @,
            !.completed_at =
              IF status \in {STATUS_COMPLETED, STATUS_FAILED} THEN now ELSE @,
            !.error_message = IF error_message # NULL THEN error_message ELSE @,
            !.result = IF result # NULL THEN result ELSE @]]

\* an update that writes the error_message and result columns on every call
UpdateEveryColumn(tbl, job_id, status, error_message, result, now) ==
  IF job_id \notin DOMAIN tbl
  THEN tbl
  ELSE [tbl EXCEPT ![job_id] =
         [@ EXCEPT
            !.status = status,
            !.started_at = IF status = STATUS_RUNNING THEN now ELSE @,
            !.completed_at = IF status \in TerminalStatuses THEN now ELSE @,
            !.error_message = error_message,
            !.result = result]]

\* update_job_status: UPDATE jobs SET ... WHERE id = ?
update_job_status(tbl, job_id, status, error_message, result, now) ==
  IF job_id \notin DOMAIN tbl
  THEN tbl
  ELSE [tbl EXCEPT ![job_id] =
         [@ EXCEPT
            !.status = status,
            !.started_at = IF status = STATUS_RUNNING THEN now ELSE @,
            !.completed_at = IF status \in TerminalStatuses THEN now ELSE @,
            !.error_message = IF error_message # NULL THEN error_message ELSE @,
            !.result = IF result # NULL THEN result ELSE @]]

\* the ids of the rows with the given status
WithStatus(tbl, status) == {i \in DOMAIN tbl : tbl[i].status = status}

\* ORDER BY <key> ASC over the rows S: rows with equal keys come in rowid order,
\* the order in which they were written
RECURSIVE OrderedBy(_, _)
OrderedBy(S, key) ==
  IF S = {}
  THEN <<>>
  ELSE LET first == CHOOSE i \in S :
                      \A k \in S : key[i] < key[k] \/ (key[i] = key[k] /\ i <= k)
       IN <<first>> \o OrderedBy(S \ {first}, key)

\* LIMIT n: a negative n is no limit
Limit(s, n) ==
  IF n < 0 \/ n >= Len(s) THEN s ELSE SubSeq(s, 1, n)

\* a row handed on without its params
RowWithoutParams(tbl, i) ==
  [id |-> i, job_type |-> tbl[i].job_type, file_path |-> tbl[i].file_path,
   params |-> NoText, started_at |-> tbl[i].started_at]

\* what a SELECT * hands the dispatcher for row i
RowOf(tbl, i) ==
  [id |-> i, job_type |-> tbl[i].job_type, file_path |-> tbl[i].file_path,
   params |-> tbl[i].params, started_at |-> tbl[i].started_at]

\* get_pending_jobs with ORDER BY created_at DESC
GetPendingJobsNewestFirst(tbl, limit) ==
  LET s == Limit(OrderedBy(WithStatus(tbl, STATUS_PENDING),
                           [i \in DOMAIN tbl |-> 0 - tbl[i].created_at]), limit)
  IN [k \in 1..Len(s) |-> RowOf(tbl, s[k])]

\* get_pending_jobs: ... WHERE status = 'pending' ORDER BY created_at ASC LIMIT ?
get_pending_jobs(tbl, limit) ==
  LET s == Limit(OrderedBy(WithStatus(tbl, STATUS_PENDING),
                           [i \in DOMAIN tbl |-> tbl[i].created_at]), limit)
  IN [k \in 1..Len(s) |-> RowOf(tbl, s[k])]

\* a query that returns a running row only while the job's unit is alive
RunningJobsWithLiveUnit(tbl) ==
  LET s == OrderedBy({i \in WithStatus(tbl, STATUS_RUNNING) :
                        i \in DOMAIN exec /\ exec[i].state = "running"},
                     [i \in DOMAIN tbl |-> tbl[i].started_at])
  IN [k \in 1..Len(s) |-> RowOf(tbl, s[k])]

\* get_running_jobs: ... WHERE status = 'running' ORDER BY started_at ASC
get_running_jobs(tbl) ==
  LET s == OrderedBy(WithStatus(tbl, STATUS_RUNNING),
                     [i \in DOMAIN tbl |-> tbl[i].started_at])
  IN [k \in 1..Len(s) |-> RowOf(tbl, s[k])]

\* a DELETE for the statuses the docstring of cleanup_old_jobs names,
\* completed and failed
CleanupVictimsAsDocumented(tbl, days, now) ==
  {i \in DOMAIN tbl :
     /\ tbl[i].status \in {STATUS_COMPLETED, STATUS_FAILED}
     /\ tbl[i].completed_at # NoTime
     /\ tbl[i].completed_at < now - days * SecondsPerDay}

\* cleanup_old_jobs: the rows its DELETE removes
CleanupVictims(tbl, days, now) ==
  {i \in DOMAIN tbl :
     /\ tbl[i].status \in TerminalStatuses
     /\ tbl[i].completed_at # NoTime
     /\ tbl[i].completed_at < now - days * SecondsPerDay}

\* cleanup_old_jobs: the table it leaves and the count it returns
cleanup_old_jobs(tbl, days, now) ==
  LET gone == CleanupVictims(tbl, days, now)
  IN [tbl |-> DeleteRows(tbl, gone), deleted |-> Cardinality(gone)]

\* JOB_TIMEOUTS.get(job_type, 600)
JobTimeout(job_type) ==
  IF job_type \in KnownJobTypes THEN JOB_TIMEOUTS(job_type) ELSE DefaultTimeout

\* f'Job exceeded timeout of {timeout}s'
TimeoutMessage(timeout) ==
  CASE timeout = 300 -> "Job exceeded timeout of 300s"
    [] timeout = 600 -> "Job exceeded timeout of 600s"
    [] timeout = 1800 -> "Job exceeded timeout of 1800s"

\* a test that fires from half the timeout on
TimedOutEarly(elapsed, timeout) == 2 * elapsed > timeout

\* the test of _check_timeouts against twice the timeout
TimedOutLate(elapsed, timeout) == elapsed > 2 * timeout

\* the test of _check_timeouts
TimedOut(elapsed, timeout) == elapsed > timeout

(* --------------------------- execution unit --------------------------- *)

\* what the handler of a job does: it returns a result, it raises, or it returns
\* a result json.dumps cannot encode; an unknown job type raises ValueError
NoOutcome == [kind |-> "none", message |-> NULL]
OutcomeReturn == [kind |-> "return", message |-> NULL]
OutcomeRaise == [kind |-> "raise", message |-> "handler error"]
OutcomeUnencodable == [kind |-> "return_unencodable", message |-> "not JSON serializable"]
OutcomeUnknownType == [kind |-> "raise", message |-> "Unknown job type: bogus"]

HandlerOutcomes(job_type) ==
  IF job_type \in KnownJobTypes
  THEN {OutcomeReturn, OutcomeRaise, OutcomeUnencodable}
  ELSE {OutcomeUnknownType}

\* json.dumps(result) of a handler's result
EncodedResult == "result"

\* _execute_job with the except clause left out
ExecuteJobNoExcept(tbl, job, outcome, now) ==
  IF job.params # NoText /\ ~CanDecode(job.params)
  THEN [tbl |-> tbl, state |-> "died"]
  ELSE IF outcome.kind = "return"
  THEN [tbl |-> update_job_status(tbl, job.id, STATUS_COMPLETED, NULL, EncodedResult, now),
        state |-> "done"]
  ELSE [tbl |-> tbl, state |-> "died"]

\* _execute_job: the status it writes and how the thread ends. The params are
\* decoded before the try block, so an error there ends the thread with nothing
\* written; what the handler does is inside the try block
execute_job(tbl, job, outcome, now) ==
  IF job.params # NoText /\ ~CanDecode(job.params)
  THEN [tbl |-> tbl, state |-> "died"]
  ELSE IF outcome.kind = "return"
  THEN [tbl |-> update_job_status(tbl, job.id, STATUS_COMPLETED, NULL, EncodedResult, now),
        state |-> "done"]
  ELSE [tbl |-> update_job_status(tbl, job.id, STATUS_FAILED, outcome.message, NULL, now),
        state |-> "done"]

\* threading.Thread(target=self._execute_job, args=(job,)).start()
NewThread(job) == [state |-> "running", job |-> job, outcome |-> NoOutcome]

SpawnThread(units, job) ==
  [i \in (DOMAIN units) \cup {job.id} |->
     IF i = job.id THEN NewThread(job) ELSE units[i]]

(* ------------------------------ settings ------------------------------ *)

\* api_settings: max_parallel_jobs is clamped to 1..10
ClampMaxParallel(v) == IF v < 1 THEN 1 ELSE IF v > 10 THEN 10 ELSE v

\* the providers a credential list is kept for, in the order of rotation
providers == <<"DeepL", "Azure", "Gemini">>

ProviderNames == {providers[i] : i \in 1..Len(providers)}

\* providers.index(p), counted from 1
ProviderIndex(p) == CHOOSE i \in 1..Len(providers) : providers[i] = p

\* the failover loop with one more attempt
ThreeAttempts == 2 + 1

\* range(max_attempts) of _translate_with_failover
max_attempts == 2

\* a credential of a provider's list; last_used is absent until it is written
KeyInfo(active, last_error_at) ==
  [active |-> active, last_error_at |-> last_error_at, last_used |-> NoTime]

\* _default_settings, the fields the failover loop reads
DefaultSettings ==
  [provider |-> "DeepL",
   provider_keys |-> [p \in ProviderNames |-> <<>>],
   auto_change_key_on_error |-> [p \in ProviderNames |-> FALSE],
   auto_switch_on_error |-> FALSE,
   retry_after_days |-> [p \in ProviderNames |-> 0]]

(* ------------------------------- actions ------------------------------ *)

\* the clock advances; it does so while the dispatcher is in time.sleep(2) or
\* has left its loop (an iteration is short at the scale of the timeouts)
Tick ==
  /\ ticks < MaxTicks
  /\ dpc \in {"while", "exited"}
  /\ ticks' = ticks + 1
  /\ clock' = clock + TickStep
  /\ UNCHANGED failoverVars
  /\ UNCHANGED <<unitVars, processVars, jobs, nextId, exec, queueVars, loopVars,
                 deleteVars>>

\* add_job; nextId goes on to count the rows ever inserted
AddJob(job_type, file_path, params) ==
  /\ nextId <= MaxJobs
  /\ jobs' = InsertRow(jobs, lastrowid(jobs, nextId),
                       NewJobRow(job_type, file_path, params, clock))
  /\ nextId' = nextId + 1
  /\ UNCHANGED failoverVars
  /\ UNCHANGED <<exec, timeVars, unitVars, processVars, queueVars, loopVars,
                 deleteVars>>

\* delete_job up to its DELETE: the SELECT and the two early returns
DeleteJobSelect(job_id) ==
  /\ delpc = "idle"
  /\ delId' = job_id
  /\ IF job_id \in DOMAIN jobs /\ jobs[job_id].status = STATUS_PENDING
     THEN delpc' = "delete" /\ delRet' = delRet
     ELSE delpc' = "return" /\ delRet' = FALSE
  /\ UNCHANGED failoverVars
  /\ UNCHANGED <<jobs, nextId, exec, timeVars, unitVars, processVars, queueVars,
                 loopVars>>

\* delete_job: DELETE FROM jobs WHERE id = ?, commit, return True
DeleteJobDelete ==
  /\ delpc = "delete"
  /\ jobs' = DeleteRows(jobs, {delId})
  /\ delpc' = "return"
  /\ delRet' = TRUE
  /\ UNCHANGED failoverVars
  /\ UNCHANGED <<nextId, exec, timeVars, unitVars, processVars, queueVars, loopVars,
                 delId>>

\* the route delete_job answers with what delete_job returned
DeleteJobReturn ==
  /\ delpc = "return"
  /\ delpc' = "idle"
  /\ delId' = 0
  /\ delRet' = FALSE
  /\ UNCHANGED failoverVars
  /\ UNCHANGED <<jobs, nextId, exec, timeVars, unitVars, processVars, queueVars,
                 loopVars>>

\* api_settings: job_queue.max_parallel = max_parallel_jobs
ApiSettings(v) ==
  /\ max_parallel # ClampMaxParallel(v)
  /\ max_parallel' = ClampMaxParallel(v)
  /\ UNCHANGED failoverVars
  /\ UNCHANGED <<jobs, nextId, exec, timeVars, unitVars, processVars, running,
                 loopVars, deleteVars>>

\* import_settings: job_queue.max_parallel = settings_data.get('max_parallel_jobs', 2)
ImportSettings(v) ==
  /\ max_parallel # v
  /\ max_parallel' = v
  /\ UNCHANGED failoverVars
  /\ UNCHANGED <<jobs, nextId, exec, timeVars, unitVars, processVars, running,
                 loopVars, deleteVars>>

\* stop_processor: self.running = False
StopProcessor ==
  /\ running
  /\ running' = FALSE
  /\ UNCHANGED failoverVars
  /\ UNCHANGED <<jobs, nextId, exec, timeVars, unitVars, processVars, max_parallel,
                 loopVars, deleteVars>>

\* the ids of the rows a query returned that are overdue at the time now
OverdueIn(rows, now) ==
  {rows[k].id : k \in {n \in 1..Len(rows) :
      now - rows[n].started_at > JobTimeout(rows[n].job_type)}}

\* no handler of a search or sync job is at work
NoLocals == <<>>

\* _process_jobs without its except clause: the thread ends
AfterExceptionUncaught == "exited"

\* where _process_jobs goes on after its except clause and time.sleep(2)
AfterException == "while"

\* _process_jobs: while self.running, and the first statement of
\* _check_timeouts: running_jobs = self.get_running_jobs()
LoopTest ==
  /\ dpc = "while"
  /\ IF running
     THEN LET rows == get_running_jobs(jobs)
          IN /\ running_jobs' = rows
             /\ swept' = OverdueIn(rows, clock)
             /\ dpc' = IF rows = <<>> THEN "count" ELSE "sweep"
             /\ dfault' = FALSE
     ELSE /\ dpc' = "exited"
          /\ UNCHANGED <<running_jobs, swept, dfault>>
  /\ UNCHANGED failoverVars
  /\ UNCHANGED <<jobs, nextId, exec, timeVars, unitVars, processVars, queueVars,
                 running_count,
                 pending_jobs, deleteVars>>

\* _check_timeouts: one turn of its for loop
CheckTimeoutsStep ==
  /\ dpc = "sweep"
  /\ LET job == Head(running_jobs)
         timeout == JobTimeout(job.job_type)
         elapsed == clock - job.started_at
     IN jobs' = IF TimedOut(elapsed, timeout)
                THEN update_job_status(jobs, job.id, STATUS_TIMEOUT,
                                       TimeoutMessage(timeout), NULL, clock)
                ELSE jobs
  /\ running_jobs' = Tail(running_jobs)
  /\ dpc' = IF Tail(running_jobs) = <<>> THEN "count" ELSE "sweep"
  /\ UNCHANGED failoverVars
  /\ UNCHANGED <<nextId, exec, timeVars, unitVars, processVars, queueVars,
                 running_count, pending_jobs,
                 swept, dfault, deleteVars>>

\* _process_jobs: running_count = len(self.get_running_jobs()) and the test
\* running_count < self.max_parallel
CountRunning ==
  /\ dpc = "count"
  /\ LET n == Len(get_running_jobs(jobs))
     IN /\ running_count' = IF n < max_parallel THEN n ELSE 0
        /\ dpc' = IF n < max_parallel THEN "slots" ELSE "cleanup"
  /\ swept' = {}
  /\ UNCHANGED failoverVars
  /\ UNCHANGED <<jobs, nextId, exec, timeVars, unitVars, processVars, queueVars,
                 running_jobs,
                 pending_jobs, dfault, deleteVars>>

\* _process_jobs: slots_available = self.max_parallel - running_count and
\* pending_jobs = self.get_pending_jobs(limit=slots_available)
GetPending ==
  /\ dpc = "slots"
  /\ LET slots_available == max_parallel - running_count
         rows == get_pending_jobs(jobs, slots_available)
     IN /\ pending_jobs' = rows
        /\ dpc' = IF rows = <<>> THEN "cleanup" ELSE "start"
  /\ running_count' = 0
  /\ UNCHANGED failoverVars
  /\ UNCHANGED <<jobs, nextId, exec, timeVars, unitVars, processVars, queueVars,
                 running_jobs, swept,
                 dfault, deleteVars>>

\* _process_jobs: one turn of for job in pending_jobs, with _start_job
StartJob ==
  /\ dpc = "start"
  /\ IF ~running
     THEN /\ pending_jobs' = <<>>
          /\ dpc' = "cleanup"
          /\ UNCHANGED <<jobs, exec>>
     ELSE /\ jobs' = update_job_status(jobs, Head(pending_jobs).id, STATUS_RUNNING,
                                       NULL, NULL, clock)
          /\ exec' = SpawnThread(exec, Head(pending_jobs))
          /\ pending_jobs' = Tail(pending_jobs)
          /\ dpc' = IF Tail(pending_jobs) = <<>> THEN "cleanup" ELSE "start"
  /\ UNCHANGED failoverVars
  /\ UNCHANGED <<nextId, timeVars, unitVars, processVars, queueVars, running_jobs,
                 running_count, swept,
                 dfault, deleteVars>>

\* _process_jobs: if int(time.time()) % 3600 == 0: self.cleanup_old_jobs(),
\* and time.sleep(2)
Cleanup ==
  /\ dpc = "cleanup"
  /\ \E on_the_hour \in BOOLEAN :
       jobs' = IF on_the_hour
               THEN DeleteRows(jobs, CleanupVictims(jobs, CleanupDays, clock))
               ELSE jobs
  /\ dpc' = "while"
  /\ UNCHANGED failoverVars
  /\ UNCHANGED <<nextId, exec, timeVars, unitVars, processVars, queueVars,
                 running_jobs, running_count,
                 pending_jobs, swept, dfault, deleteVars>>

\* a store call of the dispatcher's iteration raises (sqlite3.Error): the
\* iteration is abandoned for the except clause of _process_jobs
StoreCallFails ==
  /\ \/ dpc = "while" /\ running
     \/ dpc = "sweep" /\ TimedOut(clock - Head(running_jobs).started_at,
                                  JobTimeout(Head(running_jobs).job_type))
     \/ dpc = "count"
     \/ dpc = "slots"
     \/ dpc = "start" /\ running
     \/ dpc = "cleanup"
  /\ dpc' = AfterException
  /\ dfault' = TRUE
  /\ running_jobs' = <<>>
  /\ running_count' = 0
  /\ pending_jobs' = <<>>
  /\ swept' = {}
  /\ UNCHANGED failoverVars
  /\ UNCHANGED <<jobs, nextId, exec, timeVars, unitVars, processVars, queueVars,
                 deleteVars>>

\* _execute_job: the handler ends and the thread writes the job's status
ExecuteJob(job_id) ==
  /\ job_id \in DOMAIN exec
  /\ exec[job_id].state = "running"
  /\ \E outcome \in HandlerOutcomes(exec[job_id].job.job_type) :
       LET end == execute_job(jobs, exec[job_id].job, outcome, clock)
       IN /\ jobs' = end.tbl
          /\ exec' = [exec EXCEPT ![job_id].state = end.state,
                                  ![job_id].outcome = outcome]
  /\ UNCHANGED failoverVars
  /\ UNCHANGED <<nextId, timeVars, unitVars, processVars, queueVars, loopVars,
                 deleteVars>>

Init ==
  /\ jobs = <<>>
  /\ nextId = 1
  /\ clock = 0
  /\ ticks = 0
  /\ max_parallel \in 1..MaxParallel
  /\ running = TRUE
  /\ dpc = "while"
  /\ running_jobs = <<>>
  /\ running_count = 0
  /\ pending_jobs = <<>>
  /\ exec = <<>>
  /\ delpc = "idle"
  /\ delId = 0
  /\ delRet = FALSE
  /\ swept = {}
  /\ dfault = FALSE
  /\ settings_file = DefaultSettings
  /\ settings0 = DefaultSettings
  /\ settings = DefaultSettings
  /\ provider = DefaultSettings.provider
  /\ attempt = 0
  /\ switched = "no"
  /\ tpc = "idle"
  /\ success = FALSE
  /\ message = NULL
  /\ error_msg = NULL
  /\ calls = <<>>
  /\ deleted = 0
  /\ NoProcess
  /\ hpc = "idle"
  /\ hloc = NoLocals

\* the dispatcher thread
Dispatcher ==
  \/ LoopTest
  \/ CheckTimeoutsStep
  \/ CountRunning
  \/ GetPending
  \/ StartJob
  \/ Cleanup

\* the dispatcher, the execution units, the clock and the callers of add_job,
\* with max_parallel as it was when the queue was built
Next ==
  \/ Tick
  \/ \E j \in EnqueuedJobs : AddJob(j.job_type, j.file_path, j.params)
  \/ Dispatcher
  \/ \E i \in 1..MaxJobs : ExecuteJob(i)

Spec == Init /\ [][Next]_vars

\* as Spec, with the settings endpoints, delete requests and stop_processor
NextAll ==
  \/ Next
  \/ \E v \in 0..MaxParallel : ApiSettings(v)
  \/ \E v \in 0..MaxParallel : ImportSettings(v)
  \/ \E i \in 1..MaxJobs : DeleteJobSelect(i)
  \/ DeleteJobDelete
  \/ DeleteJobReturn
  \/ StopProcessor

SpecAll == Init /\ [][NextAll]_vars

\* the dispatcher with failing store calls and stop_processor, over jobs of one type
NextFault ==
  \/ Tick
  \/ AddJob(JOB_TYPE_EXTRACT, VideoPath, SomeParams)
  \/ Dispatcher
  \/ \E i \in 1..MaxJobs : ExecuteJob(i)
  \/ StoreCallFails
  \/ StopProcessor

SpecFault == Init /\ [][NextFault]_vars

(* -------------------------- translate failover ------------------------ *)

\* how long ago the credentials of the settings file last failed, in days
ErrorAges == {1, 5}

\* the values of retry_after_days the settings file holds, in days
RetryChoices == {0, 2}

\* the wall clock when the translate job runs
FailoverNow == 5 * SecondsPerDay

\* the values of last_error_at in the settings file: null or a past time
ErrorTimes(now) == {NoTime} \cup {now - a * SecondsPerDay : a \in ErrorAges}

\* the credential lists of at most n entries, at most one of them active
KeyLists(n, times) ==
  UNION {{[i \in 1..len |-> KeyInfo(i = a, err[i])] :
            a \in 0..len, err \in [1..len -> times]} : len \in 0..n}

\* what str(e) or the fixed text of _run_local_translation says of a failed call
TranslationErrors == {"Translation function returned False", "quota exceeded"}

\* f'No API keys configured for {provider}'
NoKeysMessage(p) ==
  CASE p = "DeepL" -> "No API keys configured for DeepL"
    [] p = "Azure" -> "No API keys configured for Azure"
    [] p = "Gemini" -> "No API keys configured for Gemini"

\* f'No active API key for {provider}'
NoActiveKeyMessage(p) ==
  CASE p = "DeepL" -> "No active API key for DeepL"
    [] p = "Azure" -> "No active API key for Azure"
    [] p = "Gemini" -> "No active API key for Gemini"

AllAttemptsMessage == "Translation failed after all attempts"

\* f'Translation failed: {message}'
TranslationFailedMessage(m) ==
  CASE m = "Translation function returned False" ->
         "Translation failed: Translation function returned False"
    [] m = "quota exceeded" -> "Translation failed: quota exceeded"
    [] m = AllAttemptsMessage ->
         "Translation failed: Translation failed after all attempts"
    [] m = NoKeysMessage("DeepL") -> "Translation failed: No API keys configured for DeepL"
    [] m = NoKeysMessage("Azure") -> "Translation failed: No API keys configured for Azure"
    [] m = NoKeysMessage("Gemini") -> "Translation failed: No API keys configured for Gemini"
    [] m = NoActiveKeyMessage("DeepL") -> "Translation failed: No active API key for DeepL"
    [] m = NoActiveKeyMessage("Azure") -> "Translation failed: No active API key for Azure"
    [] m = NoActiveKeyMessage("Gemini") -> "Translation failed: No active API key for Gemini"

\* a lookup that falls back to the first credential when none is active
ActiveIndexOrFirst(keys_list) ==
  IF \E i \in 1..Len(keys_list) : keys_list[i].active
  THEN CHOOSE i \in 1..Len(keys_list) :
         keys_list[i].active /\ \A k \in 1..(i - 1) : ~keys_list[k].active
  ELSE IF keys_list = <<>> THEN 0 ELSE 1

\* next((i for i, k in enumerate(keys_list) if k.get('active')), none), counted
\* from 1; 0 when no credential is active
ActiveIndex(keys_list) ==
  IF \E i \in 1..Len(keys_list) : keys_list[i].active
  THEN CHOOSE i \in 1..Len(keys_list) :
         keys_list[i].active /\ \A k \in 1..(i - 1) : ~keys_list[k].active
  ELSE 0

\* _translate_with_failover, "Switch to next key": the active flag moves from
\* current_idx to (current_idx + 1) % len(keys_list)
SwitchToNextKey(keys_list) ==
  LET current_idx == ActiveIndex(keys_list)
      next_idx == (current_idx % Len(keys_list)) + 1
  IN [[keys_list EXCEPT ![current_idx].active = FALSE]
        EXCEPT ![next_idx].active = TRUE]

\* the provider switch stepping two places in the list
NextProviderSkipping(p) == providers[((ProviderIndex(p) + 1) % Len(providers)) + 1]

\* _translate_with_failover, "Switch provider"
NextProvider(p) == providers[(ProviderIndex(p) % Len(providers)) + 1]

\* the credential lists of the providers the job does not start with
OtherKeyLists ==
  {<<>>, <<KeyInfo(TRUE, NoTime)>>, <<KeyInfo(FALSE, NoTime)>>}

\* a translate job has been admitted: its row is running and its thread has
\* loaded the settings file
InitFailover ==
  /\ clock = FailoverNow
  /\ ticks = 0
  /\ nextId = 2
  /\ LET job_id == nextId - 1
         row == NewJobRow(JOB_TYPE_TRANSLATE, SubtitlePath, SomeParams, clock)
         tbl == InsertRow(<<>>, job_id, row)
     IN /\ jobs = update_job_status(tbl, job_id, STATUS_RUNNING, NULL, NULL, clock)
        /\ exec = SpawnThread(<<>>, RowOf(tbl, job_id))
  /\ max_parallel \in 1..MaxParallel
  /\ running = TRUE
  /\ dpc = "while"
  /\ running_jobs = <<>>
  /\ running_count = 0
  /\ pending_jobs = <<>>
  /\ delpc = "idle"
  /\ delId = 0
  /\ delRet = FALSE
  /\ swept = {}
  /\ dfault = FALSE
  /\ \E p \in ProviderNames, own \in KeyLists(MaxKeys, ErrorTimes(clock)),
        other \in OtherKeyLists,
        change_own \in BOOLEAN, change_other \in BOOLEAN,
        switch \in BOOLEAN, retry \in RetryChoices :
       settings_file =
         [provider |-> p,
          provider_keys |-> [q \in ProviderNames |-> IF q = p THEN own ELSE other],
          auto_change_key_on_error |->
            [q \in ProviderNames |-> IF q = p THEN change_own ELSE change_other],
          auto_switch_on_error |-> switch,
          retry_after_days |-> [q \in ProviderNames |-> retry]]
  /\ settings0 = settings_file
  /\ settings = settings_file
  /\ provider = settings.provider
  /\ attempt = 0
  /\ switched = "no"
  /\ tpc = "attempt"
  /\ success = FALSE
  /\ message = NULL
  /\ error_msg = NULL
  /\ calls = <<>>
  /\ deleted = 0
  /\ NoProcess
  /\ hpc = "idle"
  /\ hloc = NoLocals

\* _translate_with_failover returns
Return(ok, msg) ==
  /\ tpc' = "return"
  /\ success' = ok
  /\ message' = msg

\* an attempt that finds no credential, or no active one, for the provider
TranslateWithoutKey ==
  /\ tpc = "attempt"
  /\ LET keys_list == settings.provider_keys[provider]
     IN /\ keys_list = <<>> \/ ActiveIndex(keys_list) = 0
        /\ Return(FALSE, IF keys_list = <<>> THEN NoKeysMessage(provider)
                         ELSE NoActiveKeyMessage(provider))
  /\ UNCHANGED <<settings_file, settings0, settings, provider, attempt, switched,
                 error_msg, calls>>
  /\ UNCHANGED <<jobs, nextId, exec, timeVars, unitVars, processVars, queueVars,
                 loopVars, deleteVars>>

\* an attempt whose call of _run_local_translation succeeds
TranslateSucceeds ==
  /\ tpc = "attempt"
  /\ LET keys_list == settings.provider_keys[provider]
         idx == ActiveIndex(keys_list)
         updated == [settings EXCEPT !.provider_keys[provider][idx].last_used = clock]
     IN /\ idx # 0
        /\ settings' = updated
        /\ settings_file' = updated
  /\ calls' = Append(calls, "ok")
  /\ error_msg' = NULL
  /\ Return(TRUE, "Translation completed")
  /\ UNCHANGED <<settings0, provider, attempt, switched>>
  /\ UNCHANGED <<jobs, nextId, exec, timeVars, unitVars, processVars, queueVars,
                 loopVars, deleteVars>>

\* _translate_with_failover, "Handle failover", for a provider with an active
\* credential: the key rotation when auto_change, else the provider switch
\* when auto_switch_provider and an attempt remains, else nothing
FailoverChoice(auto_change, auto_switch_provider, attempt_no) ==
  IF auto_change THEN "key"
  ELSE IF auto_switch_provider /\ attempt_no < max_attempts - 1 THEN "provider"
  ELSE "no"

\* an attempt whose call of _run_local_translation fails with the message err:
\* the next credential, else the next provider, else the error is returned
TranslateFails(err) ==
  /\ tpc = "attempt"
  /\ ActiveIndex(settings.provider_keys[provider]) # 0
  /\ calls' = Append(calls, "error")
  /\ error_msg' = err
  /\ LET keys_list == settings.provider_keys[provider]
         choice == FailoverChoice(settings.auto_change_key_on_error[provider],
                                  settings.auto_switch_on_error, attempt)
     IN IF choice = "key"
        THEN /\ settings' = [settings EXCEPT
                               !.provider_keys[provider] = SwitchToNextKey(keys_list)]
             /\ provider' = provider
             /\ switched' = "key"
        ELSE IF choice = "provider"
        THEN /\ settings' = [settings EXCEPT !.provider = NextProvider(provider)]
             /\ provider' = NextProvider(provider)
             /\ switched' = "provider"
        ELSE /\ UNCHANGED <<settings, provider>>
             /\ switched' = "no"
  /\ IF switched' # "no"
     THEN /\ settings_file' = settings'
          /\ attempt' = attempt + 1
          /\ IF attempt' < max_attempts
             THEN UNCHANGED <<tpc, success, message>>
             ELSE Return(FALSE, AllAttemptsMessage)
     ELSE /\ UNCHANGED <<settings_file, attempt>>
          /\ Return(FALSE, err)
  /\ UNCHANGED settings0
  /\ UNCHANGED <<jobs, nextId, timeVars, unitVars, processVars, exec, queueVars,
                 loopVars, deleteVars>>

\* _execute_translate after _translate_with_failover, and the status
\* _execute_job writes for it
ExecuteTranslateEnd ==
  /\ tpc = "return"
  /\ \E job_id \in DOMAIN exec :
       /\ exec[job_id].state = "running"
       /\ LET outcome == IF success THEN OutcomeReturn
                         ELSE [kind |-> "raise",
                               message |-> TranslationFailedMessage(message)]
              end == execute_job(jobs, exec[job_id].job, outcome, clock)
          IN /\ jobs' = end.tbl
             /\ exec' = [exec EXCEPT ![job_id].state = end.state,
                                     ![job_id].outcome = outcome]
  /\ tpc' = "done"
  /\ UNCHANGED <<settings_file, settings0, settings, provider, attempt, switched,
                 success, message, error_msg, calls>>
  /\ UNCHANGED <<nextId, timeVars, unitVars, processVars, queueVars, loopVars,
                 deleteVars>>

\* the thread of one translate job
NextFailover ==
  \/ TranslateWithoutKey
  \/ TranslateSucceeds
  \/ \E err \in TranslationErrors : TranslateFails(err)
  \/ ExecuteTranslateEnd

SpecFailover == InitFailover /\ [][NextFailover]_vars

(* ------------------------------ retention ----------------------------- *)

\* the time of the calls of cleanup_old_jobs
CleanupNow == 30 * SecondsPerDay

\* how many days before CleanupNow a stored job was created and processed
JobAges == {3, 7, 10}

\* the retentions cleanup_old_jobs is called with: its default and a shorter one
RetentionChoices == {CleanupDays, 3}

\* the row of a job created at time t and taken to status by _start_job and
\* by the write that ended it, all at time t
StoredRow(status, t) ==
  LET pending ==
        InsertRow(<<>>, 1, NewJobRow(JOB_TYPE_EXTRACT, VideoPath, SomeParams, t))
      started == update_job_status(pending, 1, STATUS_RUNNING, NULL, NULL, t)
      ended ==
        update_job_status(started, 1, status,
                          IF status = STATUS_COMPLETED THEN NULL
                          ELSE IF status = STATUS_FAILED THEN OutcomeRaise.message
                          ELSE TimeoutMessage(JobTimeout(JOB_TYPE_EXTRACT)),
                          IF status = STATUS_COMPLETED THEN EncodedResult ELSE NULL,
                          t)
  IN IF status = STATUS_PENDING THEN pending[1]
     ELSE IF status = STATUS_RUNNING THEN started[1]
     ELSE ended[1]

\* the rows a store can hold at CleanupNow
StoredRows(now) ==
  {StoredRow(st, now - a * SecondsPerDay) : st \in Statuses, a \in JobAges}

\* a store of up to MaxJobs jobs of any status and age, and no thread at work
InitCleanup ==
  /\ clock = CleanupNow
  /\ ticks = 0
  /\ \E n \in 0..MaxJobs : \E rows \in [1..n -> StoredRows(clock)] :
       /\ jobs = [i \in 1..n |-> rows[i]]
       /\ nextId = n + 1
  /\ exec = <<>>
  /\ max_parallel \in 1..MaxParallel
  /\ running = FALSE
  /\ dpc = "exited"
  /\ running_jobs = <<>>
  /\ running_count = 0
  /\ pending_jobs = <<>>
  /\ delpc = "idle"
  /\ delId = 0
  /\ delRet = FALSE
  /\ swept = {}
  /\ dfault = FALSE
  /\ settings_file = DefaultSettings
  /\ settings0 = DefaultSettings
  /\ settings = DefaultSettings
  /\ provider = DefaultSettings.provider
  /\ attempt = 0
  /\ switched = "no"
  /\ tpc = "idle"
  /\ success = FALSE
  /\ message = NULL
  /\ error_msg = NULL
  /\ calls = <<>>
  /\ deleted = 0
  /\ NoProcess
  /\ hpc = "idle"
  /\ hloc = NoLocals

\* a call of cleanup_old_jobs(days) by a caller that keeps what it returns
CleanupOldJobs(days) ==
  /\ LET r == cleanup_old_jobs(jobs, days, clock)
     IN /\ jobs' = r.tbl
        /\ deleted' = r.deleted
  /\ UNCHANGED <<hpc, hloc, processVars>>
  /\ UNCHANGED failoverVars
  /\ UNCHANGED <<nextId, exec, timeVars, queueVars, loopVars, deleteVars>>

\* calls of cleanup_old_jobs and of add_job on the store
NextCleanup ==
  \/ \E days \in RetentionChoices : CleanupOldJobs(days)
  \/ \E j \in EnqueuedJobs : AddJob(j.job_type, j.file_path, j.params)

SpecCleanup == InitCleanup /\ [][NextCleanup]_vars

(* ----------------------- search and sync handlers --------------------- *)

\* the language codes the settings name
Languages == {"en", "de"}

\* subtitle_search_languages as the settings file holds it
LanguageLists == UNION {[1..n -> Languages] : n \in 0..MaxLangs}

\* _execute_search_subtitles: if not search_languages: search_languages = ['en']
SearchLanguages(raw) == IF raw = <<>> THEN <<"en">> ELSE raw

\* subtitle_max_downloads, at least 1
MaxDownloadChoices == {1, 2}

\* SequenceMatcher(...).ratio() of a video file name, in percent
Scores == {0, 59, 60, 100}

\* the video files os.listdir finds, by their scores, in listing order
VideoLists == UNION {[1..n -> Scores] : n \in 0..MaxVideos}

\* what keeps a handler from its work: nothing, missing params, a missing
\* file, a missing settings file, and for a search no configured provider
Defects == {"none", "params", "file", "settings"}

\* the message of the exception a defect raises
DefectMessage(job_type, defect) ==
  CASE defect = "params" -> "Missing required parameters: base_dir, settings_file"
    [] defect = "file" /\ job_type = JOB_TYPE_SEARCH_SUBTITLES ->
         "Video file not found: movie.mkv"
    [] defect = "file" -> "Subtitle file not found: movie.en.srt"
    [] defect = "settings" -> "Settings file not found: settings.json"
    [] defect = "providers" ->
         "No subtitle providers are configured. Please enable and configure OpenSubtitles, Addic7ed, or SubDL in Settings."

\* _execute_search_subtitles: 'No subtitles downloaded. Providers attempted: ...'
NoSubtitlesMessage == "No subtitles downloaded."

\* _execute_sync_subtitles: f'No matching video file found for subtitle: {name}'
NoMatchMessage == "No matching video file found for subtitle: movie.en.srt"

\* _execute_sync_subtitles: what it raises after a video file was chosen
NoToolMessage == "ffsubsync is not installed or not found in PATH"
ToolFailedMessage == "ffsubsync failed"

\* the exception of a search that fails (network, provider)
SearchErrorMessage == "search error"

\* _execute_search_subtitles: the loop goes on after a language with downloads
NeverBreak(attempt_downloaded) == FALSE

\* _execute_search_subtitles: if attempt_downloaded: ... break
BreakAfter(attempt_downloaded) == attempt_downloaded # <<>>

\* the similarity a video file must reach, in percent
HalfThreshold == 100 \div 2

\* _execute_sync_subtitles: best_score < 0.60, in percent
Threshold == 60

\* _execute_sync_subtitles: the score of the file best names, -1 for none
\* (a file replaces best only with a strictly higher score)
RECURSIVE BestScore(_)
BestScore(scores) ==
  IF scores = <<>> THEN 0 - 1
  ELSE LET rest == BestScore(SubSeq(scores, 1, Len(scores) - 1))
           last == scores[Len(scores)]
       IN IF last > rest THEN last ELSE rest

\* the locals of a handler that starts on job_type
NewLocals(job_type, defect, raw_languages, max_downloads, videos) ==
  [job_type |-> job_type, defect |-> defect,
   search_languages |-> SearchLanguages(raw_languages),
   subtitle_max_downloads |-> max_downloads,
   next |-> 1, attempts |-> <<>>, downloaded_files |-> <<>>,
   used_language |-> NULL,
   videos |-> videos, best_score |-> 0 - 1, tool_calls |-> 0,
   raised |-> NULL]

\* one running search_subtitles or sync_subtitles job whose thread enters its
\* handler
InitHandlers ==
  /\ clock = 0
  /\ ticks = 0
  /\ nextId = 2
  /\ \E job_type \in {JOB_TYPE_SEARCH_SUBTITLES, JOB_TYPE_SYNC_SUBTITLES} :
       /\ LET job_id == nextId - 1
              file_path == IF job_type = JOB_TYPE_SEARCH_SUBTITLES
                           THEN VideoPath ELSE SubtitlePath
              tbl == InsertRow(<<>>, job_id,
                               NewJobRow(job_type, file_path, SomeParams, clock))
          IN /\ jobs = update_job_status(tbl, job_id, STATUS_RUNNING, NULL, NULL,
                                         clock)
             /\ exec = SpawnThread(<<>>, RowOf(tbl, job_id))
       /\ \E defect \in Defects \cup
                          (IF job_type = JOB_TYPE_SEARCH_SUBTITLES
                           THEN {"providers"} ELSE {}) :
            IF job_type = JOB_TYPE_SEARCH_SUBTITLES
            THEN \E raw \in LanguageLists, n \in MaxDownloadChoices :
                   hloc = NewLocals(job_type, defect, raw, n, <<>>)
            ELSE \E videos \in VideoLists :
                   hloc = NewLocals(job_type, defect, <<>>, 1, videos)
  /\ hpc = "start"
  /\ max_parallel \in 1..MaxParallel
  /\ running = TRUE
  /\ dpc = "while"
  /\ running_jobs = <<>>
  /\ running_count = 0
  /\ pending_jobs = <<>>
  /\ delpc = "idle"
  /\ delId = 0
  /\ delRet = FALSE
  /\ swept = {}
  /\ dfault = FALSE
  /\ settings_file = DefaultSettings
  /\ settings0 = DefaultSettings
  /\ settings = DefaultSettings
  /\ provider = DefaultSettings.provider
  /\ attempt = 0
  /\ switched = "no"
  /\ tpc = "idle"
  /\ success = FALSE
  /\ message = NULL
  /\ error_msg = NULL
  /\ calls = <<>>
  /\ deleted = 0
  /\ NoProcess

\* what no action of a handler changes
HandlerFrame ==
  /\ UNCHANGED <<deleted, processVars>>
  /\ UNCHANGED failoverVars
  /\ UNCHANGED <<nextId, timeVars, queueVars, loopVars, deleteVars>>

\* either handler up to its work: the checks of params, file and settings,
\* and for a search of the configured providers
HandlerStart ==
  /\ hpc = "start"
  /\ IF hloc.defect # "none"
     THEN /\ hloc' = [hloc EXCEPT !.raised = DefectMessage(hloc.job_type, hloc.defect)]
          /\ hpc' = "end"
     ELSE /\ hloc' = hloc
          /\ hpc' = IF hloc.job_type = JOB_TYPE_SEARCH_SUBTITLES
                    THEN "search" ELSE "detect"
  /\ UNCHANGED <<jobs, exec>>
  /\ HandlerFrame

\* _execute_search_subtitles: one turn of for lang in search_languages, with
\* results subtitles found and downloads of the first
\* subtitle_max_downloads of them saved
SearchLanguage(results, downloads) ==
  /\ hpc = "search"
  /\ downloads <= results
  /\ downloads <= hloc.subtitle_max_downloads
  /\ LET lang == hloc.search_languages[hloc.next]
         attempt_downloaded == [k \in 1..downloads |-> [language |-> lang, n |-> k]]
         tried == Append(hloc.attempts,
                         [language |-> lang, results |-> results,
                          downloaded |-> downloads])
     IN IF BreakAfter(attempt_downloaded)
        THEN /\ hloc' = [hloc EXCEPT
                           !.attempts = tried,
                           !.used_language = lang,
                           !.downloaded_files = @ \o attempt_downloaded]
             /\ hpc' = "end"
        ELSE /\ hloc' = [hloc EXCEPT
                           !.attempts = tried,
                           !.downloaded_files = @ \o attempt_downloaded,
                           !.next = @ + 1]
             /\ hpc' = IF hloc.next = Len(hloc.search_languages)
                       THEN "end" ELSE "search"
  /\ UNCHANGED <<jobs, exec>>
  /\ HandlerFrame

\* _execute_search_subtitles: searcher.search_subtitles raises
SearchRaises ==
  /\ hpc = "search"
  /\ hloc' = [hloc EXCEPT !.raised = SearchErrorMessage]
  /\ hpc' = "end"
  /\ UNCHANGED <<jobs, exec>>
  /\ HandlerFrame

\* _execute_sync_subtitles: the choice of the video file and the test
\* if not best or best_score < 0.60
SyncDetect ==
  /\ hpc = "detect"
  /\ LET best_score == BestScore(hloc.videos)
     IN IF hloc.videos = <<>> \/ best_score < Threshold
        THEN /\ hloc' = [hloc EXCEPT !.best_score = best_score,
                                     !.raised = NoMatchMessage]
             /\ hpc' = "end"
        ELSE /\ hloc' = [hloc EXCEPT !.best_score = best_score]
             /\ hpc' = "tool"
  /\ UNCHANGED <<jobs, exec>>
  /\ HandlerFrame

\* _execute_sync_subtitles from shutil.which('ffsubsync') on: the tool is
\* missing, or it is run and exits with 0 or with an error
SyncTool(installed, exit_ok) ==
  /\ hpc = "tool"
  /\ hloc' = IF ~installed
             THEN [hloc EXCEPT !.raised = NoToolMessage]
             ELSE [hloc EXCEPT !.tool_calls = @ + 1,
                               !.raised = IF exit_ok THEN NULL ELSE ToolFailedMessage]
  /\ hpc' = "end"
  /\ UNCHANGED <<jobs, exec>>
  /\ HandlerFrame

\* what the handler hands _execute_job: an exception or a result
HandlerOutcome(loc) ==
  IF loc.raised # NULL
  THEN [kind |-> "raise", message |-> loc.raised]
  ELSE IF loc.job_type = JOB_TYPE_SEARCH_SUBTITLES /\ loc.downloaded_files = <<>>
  THEN [kind |-> "raise", message |-> NoSubtitlesMessage]
  ELSE OutcomeReturn

\* the handler ends and _execute_job writes the job's status
HandlerEnd ==
  /\ hpc = "end"
  /\ \E job_id \in DOMAIN exec :
       /\ exec[job_id].state = "running"
       /\ LET outcome == HandlerOutcome(hloc)
              end == execute_job(jobs, exec[job_id].job, outcome, clock)
          IN /\ jobs' = end.tbl
             /\ exec' = [exec EXCEPT ![job_id].state = end.state,
                                     ![job_id].outcome = outcome]
  /\ hpc' = "done"
  /\ UNCHANGED hloc
  /\ HandlerFrame

\* the thread of one search_subtitles or sync_subtitles job
NextHandlers ==
  \/ HandlerStart
  \/ \E results \in 0..MaxResults, downloads \in 0..MaxResults :
       SearchLanguage(results, downloads)
  \/ SearchRaises
  \/ SyncDetect
  \/ \E installed \in BOOLEAN, exit_ok \in BOOLEAN : SyncTool(installed, exit_ok)
  \/ HandlerEnd

SpecHandlers == InitHandlers /\ [][NextHandlers]_vars

(* --------------------------- status updates -------------------------- *)

\* the error_message and result arguments of update_job_status: None or a text
ErrorArguments == {NULL, OutcomeRaise.message}
ResultArguments == {NULL, EncodedResult}

\* a store of one job of any status and age
InitUpdate ==
  /\ InitCleanup
  /\ DOMAIN jobs = {1}

\* a call of update_job_status
UpdateStatus(job_id, status, error_message, result) ==
  /\ jobs' = update_job_status(jobs, job_id, status, error_message, result, clock)
  /\ UNCHANGED failoverVars
  /\ UNCHANGED <<nextId, exec, timeVars, unitVars, processVars, queueVars, loopVars,
                 deleteVars>>

NextUpdate ==
  \E status \in Statuses, error_message \in ErrorArguments,
     result \in ResultArguments :
    UpdateStatus(1, status, error_message, result)

SpecUpdate == InitUpdate /\ [][NextUpdate]_vars

(* ------------------------ the loop's hourly test ---------------------- *)

\* int(time.time()) % 3600 == 0
OnTheHour(now) == now % 3600 = 0

\* a full hour of time.time(), 20 days on
HourMark == 20 * SecondsPerDay

\* the second in which the loop makes its first hourly test
LoopStarts == {HourMark + 1, HourMark + 2}

\* by how much int(time.time()) grows from one hourly test to the next:
\* time.sleep(2) and the work of an iteration
IterationSeconds == {2, 3}

\* an idle queue whose store holds one job completed 10 days ago
InitHourly ==
  /\ clock \in LoopStarts
  /\ ticks = 0
  /\ jobs = <<StoredRow(STATUS_COMPLETED, HourMark - 10 * SecondsPerDay)>>
  /\ nextId = 2
  /\ exec = <<>>
  /\ max_parallel \in 1..MaxParallel
  /\ running = TRUE
  /\ dpc = "while"
  /\ running_jobs = <<>>
  /\ running_count = 0
  /\ pending_jobs = <<>>
  /\ delpc = "idle"
  /\ delId = 0
  /\ delRet = FALSE
  /\ swept = {}
  /\ dfault = FALSE
  /\ settings_file = DefaultSettings
  /\ settings0 = DefaultSettings
  /\ settings = DefaultSettings
  /\ provider = DefaultSettings.provider
  /\ attempt = 0
  /\ switched = "no"
  /\ tpc = "idle"
  /\ success = FALSE
  /\ message = NULL
  /\ error_msg = NULL
  /\ calls = <<>>
  /\ deleted = 0
  /\ NoProcess
  /\ hpc = "idle"
  /\ hloc = NoLocals

\* _process_jobs: if int(time.time()) % 3600 == 0: self.cleanup_old_jobs()
HourlyCleanup ==
  /\ dpc = "cleanup"
  /\ jobs' = IF OnTheHour(clock)
             THEN cleanup_old_jobs(jobs, CleanupDays, clock).tbl
             ELSE jobs
  /\ dpc' = "sleep"
  /\ UNCHANGED failoverVars
  /\ UNCHANGED <<nextId, exec, timeVars, unitVars, processVars, queueVars, running_jobs,
                 running_count, pending_jobs, swept, dfault, deleteVars>>

\* _process_jobs: time.sleep(2), up to the next iteration
Sleep(seconds) ==
  /\ dpc = "sleep"
  /\ clock + seconds <= HourMark + MaxLoopSeconds
  /\ clock' = clock + seconds
  /\ dpc' = "while"
  /\ UNCHANGED failoverVars
  /\ UNCHANGED <<jobs, nextId, exec, ticks, unitVars, processVars, queueVars,
                 running_jobs,
                 running_count, pending_jobs, swept, dfault, deleteVars>>

\* the dispatcher loop of an idle queue, second by second
NextHourly ==
  \/ LoopTest
  \/ CountRunning
  \/ GetPending
  \/ HourlyCleanup
  \/ \E seconds \in IterationSeconds : Sleep(seconds)

SpecHourly == InitHourly /\ [][NextHourly]_vars

(* ---------------------- the processor's lifecycle --------------------- *)

\* number of dispatcher loops started in one behaviour
MaxLoops == 2
\* number of execution units started in one behaviour
MaxUnits == 2

\* JobQueue.__init__: the fields start_processor and stop_processor use
NewQueue == [running |-> FALSE, processor_thread |-> 0]

\* threading.Thread(target=self._process_jobs, daemon=True)
LoopThread(q) ==
  [target |-> "_process_jobs", queue |-> q, pc |-> "while", pending_jobs |-> <<>>,
   job |-> 0]

\* threading.Thread(target=self._execute_job, args=(job,), daemon=True)
UnitThread(q, job) ==
  [target |-> "_execute_job", queue |-> q, pc |-> "running", pending_jobs |-> <<>>,
   job |-> job.id]

\* the dispatcher loops that have not left _process_jobs
Loops == {t \in DOMAIN threads : threads[t].target = "_process_jobs"
                                 /\ threads[t].pc # "exited"}
\* the execution units started so far
Units == {t \in DOMAIN threads : threads[t].target = "_execute_job"}

\* _check_timeouts, applied to the rows its query returned
RECURSIVE SweepRows(_, _, _)
SweepRows(tbl, rows, now) ==
  IF rows = <<>> THEN tbl
  ELSE LET job == Head(rows)
           timeout == JobTimeout(job.job_type)
       IN SweepRows(IF TimedOut(now - job.started_at, timeout)
                    THEN update_job_status(tbl, job.id, STATUS_TIMEOUT,
                                           TimeoutMessage(timeout), NULL, now)
                    ELSE tbl,
                    Tail(rows), now)

\* the database file with its pending jobs, which every JobQueue object opens
InitStore ==
  /\ clock = 0
  /\ ticks = 0
  /\ \E n \in 1..MaxJobs :
       /\ jobs = [i \in 1..n |->
                    NewJobRow(JOB_TYPE_EXTRACT, VideoPath, SomeParams, clock)]
       /\ nextId = n + 1
  /\ exec = <<>>
  /\ max_parallel \in 1..MaxParallel
  /\ running = FALSE
  /\ dpc = "exited"
  /\ running_jobs = <<>>
  /\ running_count = 0
  /\ pending_jobs = <<>>
  /\ delpc = "idle"
  /\ delId = 0
  /\ delRet = FALSE
  /\ swept = {}
  /\ dfault = FALSE
  /\ settings_file = DefaultSettings
  /\ settings0 = DefaultSettings
  /\ settings = DefaultSettings
  /\ provider = DefaultSettings.provider
  /\ attempt = 0
  /\ switched = "no"
  /\ tpc = "idle"
  /\ success = FALSE
  /\ message = NULL
  /\ error_msg = NULL
  /\ calls = <<>>
  /\ deleted = 0
  /\ hpc = "idle"
  /\ hloc = NoLocals
  /\ threads = <<>>
  /\ callers = [c \in Callers |-> IdleCaller]
  /\ stopped = {}

\* the module has been imported and no request has asked for the queue yet
InitModule ==
  /\ InitStore
  /\ queues = <<>>
  /\ _job_queue = 0

\* one JobQueue object has been built and its processor is not started
InitProcess ==
  /\ InitStore
  /\ queues = <<NewQueue>>
  /\ _job_queue = 1

\* what no action of the lifecycle changes
ProcessFrame ==
  /\ UNCHANGED failoverVars
  /\ UNCHANGED <<nextId, exec, timeVars, unitVars, queueVars, loopVars, deleteVars>>

\* where a caller goes on when start_processor returns
AfterStart(c) ==
  IF callers[c].call = "get_job_queue"
  THEN [callers[c] EXCEPT !.pc = "return", !.queue = 0]
  ELSE [IdleCaller EXCEPT !.ret = callers[c].ret]

\* get_job_queue: if _job_queue is None
GetJobQueueTest(c) ==
  /\ callers[c].pc = "idle"
  /\ callers' = [callers EXCEPT ![c].call = "get_job_queue",
                                ![c].pc = IF _job_queue = 0 THEN "construct"
                                          ELSE "return"]
  /\ UNCHANGED <<jobs, queues, _job_queue, threads, stopped>>
  /\ ProcessFrame

\* get_job_queue: _job_queue = JobQueue(max_parallel=max_parallel)
GetJobQueueConstruct(c) ==
  /\ callers[c].pc = "construct"
  /\ queues' = Append(queues, NewQueue)
  /\ _job_queue' = Len(queues) + 1
  /\ callers' = [callers EXCEPT ![c].pc = "call"]
  /\ UNCHANGED <<jobs, threads, stopped>>
  /\ ProcessFrame

\* get_job_queue: _job_queue.start_processor() is called, on the object the
\* module variable holds at that moment
GetJobQueueStart(c) ==
  /\ callers[c].pc = "call"
  /\ callers' = [callers EXCEPT ![c].pc = "start_processor",
                                ![c].queue = _job_queue]
  /\ stopped' = stopped \ {_job_queue}
  /\ UNCHANGED <<jobs, queues, _job_queue, threads>>
  /\ ProcessFrame

\* start_processor is called on the queue q from outside the module
StartProcessorCall(c, q) ==
  /\ callers[c].pc = "idle"
  /\ q \in DOMAIN queues
  /\ callers' = [callers EXCEPT ![c].pc = "start_processor",
                                ![c].call = "start_processor",
                                ![c].queue = q]
  /\ stopped' = stopped \ {q}
  /\ UNCHANGED <<jobs, queues, _job_queue, threads>>
  /\ ProcessFrame

\* start_processor: if self.running: return
StartProcessorTest(c) ==
  /\ callers[c].pc = "start_processor"
  /\ callers' = [callers EXCEPT ![c] =
                   IF queues[callers[c].queue].running
                   THEN AfterStart(c)
                   ELSE [@ EXCEPT !.pc = "start"]]
  /\ UNCHANGED <<jobs, queues, _job_queue, threads, stopped>>
  /\ ProcessFrame

\* start_processor: self.running = True, and the thread is built and started
StartProcessorStart(c) ==
  /\ callers[c].pc = "start"
  /\ Cardinality({t \in DOMAIN threads : threads[t].target = "_process_jobs"})
       < MaxLoops
  /\ LET q == callers[c].queue
     IN /\ queues' = [queues EXCEPT ![q].running = TRUE,
                                    ![q].processor_thread = Len(threads) + 1]
        /\ threads' = Append(threads, LoopThread(q))
  /\ callers' = [callers EXCEPT ![c] = AfterStart(c)]
  /\ stopped' = stopped \ {callers[c].queue}
  /\ UNCHANGED <<jobs, _job_queue>>
  /\ ProcessFrame

\* get_job_queue: return _job_queue
GetJobQueueReturn(c) ==
  /\ callers[c].pc = "return"
  /\ callers' = [callers EXCEPT ![c] = [IdleCaller EXCEPT !.ret = _job_queue]]
  /\ UNCHANGED <<jobs, queues, _job_queue, threads, stopped>>
  /\ ProcessFrame

\* stop_processor: self.running = False, and the test of self.processor_thread
StopProcessorCall(c, q) ==
  /\ callers[c].pc = "idle"
  /\ q \in DOMAIN queues
  /\ queues' = [queues EXCEPT ![q].running = FALSE]
  /\ IF queues[q].processor_thread = 0
     THEN /\ callers' = callers
          /\ stopped' = stopped \cup {q}
     ELSE /\ callers' = [callers EXCEPT
                           ![c].pc = "join", ![c].call = "stop_processor",
                           ![c].queue = q,
                           ![c].thread = queues[q].processor_thread]
          /\ stopped' = stopped
  /\ UNCHANGED <<jobs, _job_queue, threads>>
  /\ ProcessFrame

\* stop_processor: self.processor_thread.join(timeout=5) returns, because the
\* thread has ended or because five seconds have passed
StopProcessorJoin(c) ==
  /\ callers[c].pc = "join"
  /\ \E timed_out \in BOOLEAN :
       timed_out \/ threads[callers[c].thread].pc = "exited"
  /\ callers' = [callers EXCEPT ![c] = [IdleCaller EXCEPT !.ret = callers[c].ret]]
  /\ stopped' = stopped \cup {callers[c].queue}
  /\ UNCHANGED <<jobs, queues, _job_queue, threads>>
  /\ ProcessFrame

\* _process_jobs: while self.running
ProcessLoopTest(t) ==
  /\ threads[t].target = "_process_jobs"
  /\ threads[t].pc = "while"
  /\ threads' = [threads EXCEPT ![t].pc = IF queues[threads[t].queue].running
                                          THEN "query" ELSE "exited"]
  /\ UNCHANGED <<jobs, queues, _job_queue, callers, stopped>>
  /\ ProcessFrame

\* _process_jobs: _check_timeouts, the count of the running jobs, and the
\* query for as many pending jobs as there are slots
ProcessGetPending(t) ==
  /\ threads[t].target = "_process_jobs"
  /\ threads[t].pc = "query"
  /\ LET tbl == SweepRows(jobs, get_running_jobs(jobs), clock)
         n == Len(get_running_jobs(tbl))
         rows == IF n < max_parallel
                 THEN get_pending_jobs(tbl, max_parallel - n) ELSE <<>>
     IN /\ jobs' = tbl
        /\ threads' = [threads EXCEPT ![t].pending_jobs = rows,
                                      ![t].pc = IF rows = <<>> THEN "sleep"
                                                ELSE "for"]
  /\ UNCHANGED <<queues, _job_queue, callers, stopped>>
  /\ ProcessFrame

\* _process_jobs: for job in pending_jobs: if not self.running: break
ProcessForTest(t) ==
  /\ threads[t].target = "_process_jobs"
  /\ threads[t].pc = "for"
  /\ threads' = [threads EXCEPT
                   ![t] = IF ~queues[threads[t].queue].running
                             \/ threads[t].pending_jobs = <<>>
                          THEN [@ EXCEPT !.pending_jobs = <<>>, !.pc = "sleep"]
                          ELSE [@ EXCEPT !.pc = "start_job"]]
  /\ UNCHANGED <<jobs, queues, _job_queue, callers, stopped>>
  /\ ProcessFrame

\* _start_job: the status becomes running and the unit's thread is started
ProcessStartJob(t) ==
  /\ threads[t].target = "_process_jobs"
  /\ threads[t].pc = "start_job"
  /\ Cardinality(Units) < MaxUnits
  /\ LET job == Head(threads[t].pending_jobs)
     IN /\ jobs' = update_job_status(jobs, job.id, STATUS_RUNNING, NULL, NULL, clock)
        /\ threads' = Append([threads EXCEPT ![t].pending_jobs = Tail(@),
                                             ![t].pc = "for"],
                             UnitThread(threads[t].queue, job))
  /\ UNCHANGED <<queues, _job_queue, callers, stopped>>
  /\ ProcessFrame

\* _process_jobs: the hourly test with cleanup_old_jobs, and time.sleep(2)
ProcessSleep(t) ==
  /\ threads[t].target = "_process_jobs"
  /\ threads[t].pc = "sleep"
  /\ \E on_the_hour \in BOOLEAN :
       jobs' = IF on_the_hour
               THEN DeleteRows(jobs, CleanupVictims(jobs, CleanupDays, clock))
               ELSE jobs
  /\ threads' = [threads EXCEPT ![t].pc = "while"]
  /\ UNCHANGED <<queues, _job_queue, callers, stopped>>
  /\ ProcessFrame

\* the dispatcher loops
Loop ==
  \/ \E t \in DOMAIN threads : ProcessLoopTest(t)
  \/ \E t \in DOMAIN threads : ProcessGetPending(t)
  \/ \E t \in DOMAIN threads : ProcessForTest(t)
  \/ \E t \in DOMAIN threads : ProcessStartJob(t)
  \/ \E t \in DOMAIN threads : ProcessSleep(t)

\* requests that ask the module for the queue, and the loops they start
NextModule ==
  \/ \E c \in Callers : GetJobQueueTest(c)
  \/ \E c \in Callers : GetJobQueueConstruct(c)
  \/ \E c \in Callers : GetJobQueueStart(c)
  \/ \E c \in Callers : StartProcessorTest(c)
  \/ \E c \in Callers : StartProcessorStart(c)
  \/ \E c \in Callers : GetJobQueueReturn(c)
  \/ Loop

SpecModule == InitModule /\ [][NextModule]_vars

\* the callers of start_processor and stop_processor of one queue, and its loops
NextProcess ==
  \/ \E c \in Callers, q \in DOMAIN queues : StartProcessorCall(c, q)
  \/ \E c \in Callers : StartProcessorTest(c)
  \/ \E c \in Callers : StartProcessorStart(c)
  \/ \E c \in Callers, q \in DOMAIN queues : StopProcessorCall(c, q)
  \/ \E c \in Callers : StopProcessorJoin(c)
  \/ Loop

SpecProcess == InitProcess /\ [][NextProcess]_vars

(* ------------------- the loop as long as it is running ---------------- *)

\* a running job whose timeout has not passed yet
TimeoutAhead ==
  \E j \in DOMAIN jobs :
    /\ jobs[j].status = STATUS_RUNNING
    /\ clock - jobs[j].started_at <= JobTimeout(jobs[j].job_type)

\* the clock advances (as Tick); it is followed for as long as the timeout of
\* a running job lies ahead
TimePasses ==
  /\ TimeoutAhead
  /\ dpc \in {"while", "exited"}
  /\ clock' = clock + TickStep
  /\ UNCHANGED failoverVars
  /\ UNCHANGED <<unitVars, processVars, jobs, nextId, exec, ticks, queueVars,
                 loopVars, deleteVars>>

\* the thread of a job ends with no status written: the update_job_status of
\* _execute_job raises (in the except clause nothing catches it), or the
\* process is ended and started again
UnitDies(job_id) ==
  /\ job_id \in DOMAIN exec
  /\ exec[job_id].state = "running"
  /\ exec' = [exec EXCEPT ![job_id].state = "died"]
  /\ UNCHANGED failoverVars
  /\ UNCHANGED <<jobs, nextId, timeVars, unitVars, processVars, queueVars, loopVars,
                 deleteVars>>

\* number of jobs in the store of a queue whose loop is followed for ever
MaxWaiting == 2

\* a queue that has just been started on a store of pending extract jobs
InitLive ==
  /\ clock = 0
  /\ ticks = 0
  /\ \E n \in 1..MaxWaiting :
       /\ jobs = [i \in 1..n |->
                    NewJobRow(JOB_TYPE_EXTRACT, VideoPath, SomeParams, clock)]
       /\ nextId = n + 1
  /\ exec = <<>>
  /\ max_parallel \in 1..MaxParallel
  /\ running = TRUE
  /\ dpc = "while"
  /\ running_jobs = <<>>
  /\ running_count = 0
  /\ pending_jobs = <<>>
  /\ delpc = "idle"
  /\ delId = 0
  /\ delRet = FALSE
  /\ swept = {}
  /\ dfault = FALSE
  /\ settings_file = DefaultSettings
  /\ settings0 = DefaultSettings
  /\ settings = DefaultSettings
  /\ provider = DefaultSettings.provider
  /\ attempt = 0
  /\ switched = "no"
  /\ tpc = "idle"
  /\ success = FALSE
  /\ message = NULL
  /\ error_msg = NULL
  /\ calls = <<>>
  /\ deleted = 0
  /\ hpc = "idle"
  /\ hloc = NoLocals
  /\ NoProcess

\* the queue with max_parallel as it was built; a unit may end, die or hang
NextLive ==
  \/ TimePasses
  \/ Dispatcher
  \/ \E i \in 1..MaxWaiting : ExecuteJob(i)
  \/ \E i \in 1..MaxWaiting : UnitDies(i)

\* the dispatcher thread is scheduled again and again (daemon thread, sleep of
\* two seconds), and time passes; nothing makes a unit or a request take a step
Fairness == WF_vars(Dispatcher) /\ SF_vars(TimePasses)

SpecLive == InitLive /\ [][NextLive]_vars /\ Fairness

\* as SpecLive, with the settings endpoints
NextLiveAll ==
  \/ NextLive
  \/ \E v \in 0..MaxParallel : ApiSettings(v)
  \/ \E v \in 0..MaxParallel : ImportSettings(v)

SpecLiveAll == InitLive /\ [][NextLiveAll]_vars /\ Fairness

(* ------------------------------- claims ------------------------------- *)

\* the status changes the state machine of a job allows
AllowedTransitions ==
  {<<STATUS_PENDING, STATUS_RUNNING>>} \cup
  {<<STATUS_RUNNING, t>> : t \in TerminalStatuses}

\* C1: the stored status of a job changes only along pending -> running ->
\* {completed, failed, timeout}; no job skips running and no job leaves a
\* terminal status
C1_StatusTransitions ==
  [][\A j \in (DOMAIN jobs) \cap (DOMAIN jobs') :
       jobs'[j].status # jobs[j].status =>
         <<jobs[j].status, jobs'[j].status>> \in AllowedTransitions]_vars

\* C2: the number of jobs whose stored status is running never exceeds the
\* current max_parallel
C2_RunningWithinMaxParallel ==
  Cardinality(WithStatus(jobs, STATUS_RUNNING)) <= max_parallel

\* C3: whenever a job goes from pending to running, no job pending at that
\* moment has a smaller created_at
C3_AdmissionIsFifo ==
  [][\A j \in (DOMAIN jobs) \cap (DOMAIN jobs') :
       (jobs[j].status = STATUS_PENDING /\ jobs'[j].status = STATUS_RUNNING) =>
         \A k \in WithStatus(jobs, STATUS_PENDING) :
           jobs[j].created_at <= jobs[k].created_at]_vars

\* C3 witness: one job has been admitted while a job created later is still
\* waiting in the same batch
C3_Witness ==
  /\ dpc = "start"
  /\ \E j \in WithStatus(jobs, STATUS_RUNNING) :
       \E k \in WithStatus(jobs, STATUS_PENDING) :
         /\ jobs[j].created_at < jobs[k].created_at
         /\ pending_jobs # <<>>
         /\ Head(pending_jobs).id = k

\* C4: when the timeout sweep has run, no job that its query found running
\* and overdue is still running: the sweep has set it to timeout (and only the
\* job's own thread may have written a status since)
C4_SweepTimesOut ==
  dpc = "count" =>
    \A j \in swept :
      j \in DOMAIN jobs =>
        /\ jobs[j].status # STATUS_RUNNING
        /\ jobs[j].status = STATUS_TIMEOUT \/ exec[j].state = "done"

\* C4 witness: a sweep has just set an overdue job to timeout
C4_Witness ==
  /\ dpc = "count"
  /\ \E j \in swept : j \in DOMAIN jobs /\ jobs[j].status = STATUS_TIMEOUT

\* the step in which delete_job decides what it returns
DeleteDecides == delpc # "return" /\ delpc' = "return"

\* C5: delete_job returns true iff the job existed with status pending
\* immediately before, it removes no job that is not pending, and it leaves
\* the table untouched when it returns false
C5_DeleteOnlyPending ==
  [][DeleteDecides =>
       /\ delRet' <=> (delId' \in DOMAIN jobs /\ jobs[delId'].status = STATUS_PENDING)
       /\ ~delRet' => jobs' = jobs
       /\ \A j \in (DOMAIN jobs) \ (DOMAIN jobs') : jobs[j].status = STATUS_PENDING]_vars

C7_LoopSurvivesStoreErrors ==
  /\ dpc = "exited" => ~running
  /\ dfault => dpc \in {"while", "exited"}

\* C7 witness: a store call has failed, the processor has not been stopped and
\* the loop is about to start its next iteration
C7_Witness == dfault /\ dpc = "while" /\ running

\* the translate job of the failover run has ended with the given status
TranslateJobEnded(status) ==
  /\ tpc = "done"
  /\ \A j \in DOMAIN jobs : jobs[j].status = status

\* C8: provider DeepL, two DeepL credentials with the first active, and
\* auto_change_key_on_error set for DeepL; when the first call fails and the
\* retry succeeds, the job ends completed, the persisted configuration has the
\* second credential active and the first inactive, and the first
\* credential's last_error_at is set
C8_KeyFailoverScenario ==
  LET before == settings0.provider_keys["DeepL"]
      after == settings_file.provider_keys["DeepL"]
  IN (/\ tpc = "done"
      /\ settings0.provider = "DeepL"
      /\ Len(before) = 2
      /\ before[1].active /\ ~before[2].active
      /\ settings0.auto_change_key_on_error["DeepL"]
      /\ calls = <<"error", "ok">>)
     => /\ TranslateJobEnded(STATUS_COMPLETED)
        /\ after[2].active /\ ~after[1].active
        /\ after[1].last_error_at # NoTime

\* a credential is in cooldown: it failed less than retry_after_days ago
InCooldown(key_info, retry_days, now) ==
  /\ retry_days > 0
  /\ key_info.last_error_at # NoTime
  /\ now - key_info.last_error_at < retry_days * SecondsPerDay

\* the index offset places after current_idx in the cyclic order of the list
CyclicIndex(keys_list, current_idx, offset) ==
  ((current_idx - 1 + offset) % Len(keys_list)) + 1

\* the first candidate after the active credential, in cyclic order, that is
\* not in cooldown; 0 when there is none
FirstUsable(keys_list, retry_days, now) ==
  LET current_idx == ActiveIndex(keys_list)
      usable == {offset \in 1..(Len(keys_list) - 1) :
                   ~InCooldown(keys_list[CyclicIndex(keys_list, current_idx, offset)],
                               retry_days, now)}
  IN IF usable = {}
     THEN 0
     ELSE CyclicIndex(keys_list, current_idx,
                      CHOOSE offset \in usable : \A o \in usable : offset <= o)

\* the step in which a call has failed with credential rotation switched on
\* for the provider
RotationStep ==
  /\ calls' = Append(calls, "error")
  /\ settings.auto_change_key_on_error[provider]

\* C9: credential rotation after a failed attempt makes active the first
\* credential, scanning cyclically from the one after the active credential,
\* that is not in cooldown
C9_RotationSkipsCooldown ==
  [][RotationStep =>
       LET keys_list == settings.provider_keys[provider]
           usable == FirstUsable(keys_list, settings.retry_after_days[provider], clock)
       IN usable # 0 =>
            ActiveIndex(settings'.provider_keys[provider]) = usable]_vars

\* C10: when every credential other than the active one is in cooldown,
\* credential rotation leaves the credential list as it is and the failover
\* loop does not count the rotation as a switch
C10_AllInCooldownStaysPut ==
  [][RotationStep =>
       LET keys_list == settings.provider_keys[provider]
           usable == FirstUsable(keys_list, settings.retry_after_days[provider], clock)
       IN (Len(keys_list) >= 2 /\ usable = 0) =>
            /\ settings'.provider_keys[provider] = keys_list
            /\ switched' # "key"]_vars

\* C11: with fewer than 2 credentials for the provider, credential rotation
\* after a failed attempt changes nothing and does not count as a switch: the
\* loop goes on to the provider switch (if enabled and an attempt remains) or
\* stops, and does not retry with the same credential
C11_SingleKeyRotationIsNoOp ==
  [][(RotationStep /\ Len(settings.provider_keys[provider]) < 2) =>
       /\ switched' # "key"
       /\ settings'.provider_keys = settings.provider_keys
       /\ IF settings.auto_switch_on_error /\ attempt < max_attempts - 1
          THEN switched' = "provider" /\ provider' # provider
          ELSE tpc' = "return"]_vars

\* the successor of a provider in the order DeepL -> Azure -> Gemini -> DeepL
SuccessorInOrder(p) ==
  CASE p = "DeepL" -> "Azure"
    [] p = "Azure" -> "Gemini"
    [] p = "Gemini" -> "DeepL"

\* the step in which a call has failed and the loop has switched the provider
ProviderSwitchStep ==
  /\ calls' = Append(calls, "error")
  /\ switched' = "provider"

\* C12: a provider switch goes from DeepL to Azure, from Azure to Gemini and
\* from Gemini to DeepL, the new provider is the one written to the settings,
\* and three switches in a row lead back to the provider they started from
C12_ProviderOrder ==
  [][ProviderSwitchStep =>
       /\ provider' = SuccessorInOrder(provider)
       /\ settings'.provider = provider'
       /\ settings_file'.provider = provider'
       /\ NextProvider(NextProvider(NextProvider(provider))) = provider]_vars

\* C12 witness: a job that started with Gemini has switched to DeepL
C12_Witness ==
  /\ switched = "provider"
  /\ settings0.provider = "Gemini"
  /\ provider = "DeepL"
  /\ settings_file.provider = "DeepL"

\* the number of credentials of a list that are flagged active
ActiveCount(keys_list) ==
  Cardinality({i \in 1..Len(keys_list) : keys_list[i].active})

\* C13: in every configuration the failover loop has written to the settings
\* file, each provider has at most one active credential, and exactly one when
\* it has credentials at all
C13_OneActivePerProvider ==
  settings_file # settings0 =>
    \A p \in ProviderNames :
      LET keys_list == settings_file.provider_keys[p]
      IN /\ ActiveCount(keys_list) <= 1
         /\ keys_list # <<>> => ActiveCount(keys_list) = 1

\* C14: one translate job calls the translation operation at most twice,
\* whatever credentials, providers and failover options are configured
C14_AtMostTwoCalls == Len(calls) <= 2

\* C14 witness: a job has ended after two calls of the translation operation
C14_Witness == tpc = "done" /\ Len(calls) = 2

\* the step of a failed call of the translation operation
FailedAttemptStep == calls' = Append(calls, "error")

\* C15: after a failed attempt the provider is switched only if key rotation
\* is disabled for the provider or changed nothing, auto_switch_on_error is
\* set and an attempt remains; one failed attempt never brings both a key
\* rotation and a provider switch; and when it brings neither, the loop stops
\* without a retry
C15_KeyBeforeProvider ==
  [][FailedAttemptStep =>
       LET auto_change == settings.auto_change_key_on_error[provider]
           key_rotated == settings'.provider_keys # settings.provider_keys
           provider_switched == provider' # provider
       IN /\ provider_switched =>
               /\ ~auto_change \/ ~key_rotated
               /\ settings.auto_switch_on_error
               /\ attempt + 1 < max_attempts
          /\ ~(key_rotated /\ provider_switched)
          /\ (~key_rotated /\ ~provider_switched) =>
               /\ tpc' = "return"
               /\ ~success'
               /\ attempt' = attempt]_vars

\* C16: when a translate job ends after a failed call of the translation
\* operation (every attempt failed, or no switch was possible), its status is
\* failed and its error_message carries the message of the last failed call
C16_LastErrorSurfaced ==
  (tpc = "done" /\ calls # <<>> /\ calls[Len(calls)] = "error") =>
    \A j \in DOMAIN jobs :
      /\ jobs[j].status = STATUS_FAILED
      /\ jobs[j].error_message = TranslationFailedMessage(error_msg)

\* the credentials of the configured provider when the translate job starts
KeysAtStart == settings0.provider_keys[settings0.provider]

\* the provider has zero credentials, or no credential flagged active
NoneActive(keys_list) == \A i \in 1..Len(keys_list) : ~keys_list[i].active

\* the message that names the defect of the configured provider
DefectMessages ==
  IF KeysAtStart = <<>>
  THEN {"Translation failed: No API keys configured for DeepL",
        "Translation failed: No API keys configured for Azure",
        "Translation failed: No API keys configured for Gemini"}
  ELSE {"Translation failed: No active API key for DeepL",
        "Translation failed: No active API key for Azure",
        "Translation failed: No active API key for Gemini"}

\* C17: when the configured provider has zero credentials or no active one
\* at the start of a translate job, the translation operation is never
\* called, no retry and no switch is made, the persisted configuration stays
\* as it was, and the job ends failed with a message that names the defect
C17_ConfigErrorFailsFast ==
  NoneActive(KeysAtStart) =>
    /\ calls = <<>>
    /\ attempt = 0
    /\ switched = "no"
    /\ provider = settings0.provider
    /\ settings_file = settings0
    /\ tpc = "done" =>
         \A j \in DOMAIN jobs :
           /\ jobs[j].status = STATUS_FAILED
           /\ jobs[j].error_message \in DefectMessages
           /\ jobs[j].error_message = TranslationFailedMessage(
                IF KeysAtStart = <<>> THEN NoKeysMessage(settings0.provider)
                ELSE NoActiveKeyMessage(settings0.provider))

C17_Witness ==
  /\ tpc = "done"
  /\ KeysAtStart # <<>>
  /\ NoneActive(KeysAtStart)
  /\ \E j \in DOMAIN jobs : jobs[j].status = STATUS_FAILED

\* a step in which update_job_status records status st for job j
StatusWritten(j, st) ==
  /\ j \in DOMAIN jobs
  /\ j \in DOMAIN jobs'
  /\ jobs'[j].status = st
  /\ jobs[j].status # st

\* C18: started_at is written once, by the step that records running, and
\* completed_at once, by the first step that records a terminal status; no
\* later step writes either of them again
C18_TimestampsWrittenOnce ==
  [][\A j \in DOMAIN jobs \cap DOMAIN jobs' :
       /\ jobs[j].started_at # NoTime =>
            /\ jobs'[j].started_at = jobs[j].started_at
            /\ ~StatusWritten(j, STATUS_RUNNING)
       /\ jobs[j].completed_at # NoTime =>
            /\ jobs'[j].completed_at = jobs[j].completed_at
            /\ \A st \in TerminalStatuses : ~StatusWritten(j, st)]_vars

\* the job's status is or has been running: _start_job, the only writer of
\* running, has spawned the job's thread
HasBeenRunning(j) == j \in DOMAIN exec

C20_ErrorXorResult ==
  \A j \in DOMAIN jobs :
    /\ ~(jobs[j].error_message # NULL /\ jobs[j].result # NULL)
    /\ jobs[j].error_message # NULL =>
         jobs[j].status \in {STATUS_FAILED, STATUS_TIMEOUT}
    /\ jobs[j].result # NULL => jobs[j].status = STATUS_COMPLETED

\* the age of a timestamp at the time now, in seconds
AgeOf(t, now) == now - t

C22_OneValuePerIteration ==
  dpc = "slots" =>
    /\ running_count < max_parallel
    /\ max_parallel - running_count >= 1

\* a step of add_job
AddJobStep == \E e \in EnqueuedJobs : AddJob(e.job_type, e.file_path, e.params)

\* C23: every id in the store is below the AUTOINCREMENT counter, and add_job
\* gives the new job an id at or above it, hence an id no job ever had, also
\* after deletions; the new job is pending with created_at set and
\* started_at, completed_at, error_message and result unset, and no other
\* row changes
C23_FreshIncreasingIds ==
  [][/\ \A j \in DOMAIN jobs : j < nextId
     /\ AddJobStep =>
          \E id \in DOMAIN jobs' :
            /\ id \notin DOMAIN jobs
            /\ id >= nextId
            /\ id < nextId'
            /\ DOMAIN jobs' = (DOMAIN jobs) \cup {id}
            /\ \A j \in DOMAIN jobs : jobs'[j] = jobs[j]
            /\ jobs'[id].status = STATUS_PENDING
            /\ jobs'[id].created_at = clock
            /\ jobs'[id].created_at # NoTime
            /\ jobs'[id].started_at = NoTime
            /\ jobs'[id].completed_at = NoTime
            /\ jobs'[id].error_message = NULL
            /\ jobs'[id].result = NULL]_vars

\* C23 witness: a job was added after the job with id 1 had been removed
C23_Witness ==
  /\ 1 \notin DOMAIN jobs
  /\ \E j \in DOMAIN jobs :
       /\ j > 1
       /\ jobs[j].status = STATUS_PENDING
       /\ jobs[j].created_at = clock

\* the languages of the downloaded files
DownloadLanguages ==
  {hloc.downloaded_files[k].language : k \in 1..Len(hloc.downloaded_files)}

\* C24: a search_subtitles job searches the configured languages in their
\* order, searches a language only while no earlier one gave a download,
\* takes all its files from the one language it stopped at, and ends failed
\* when no language gave a download
C24_FirstLanguageWins ==
  (hpc # "idle" /\ hloc.job_type = JOB_TYPE_SEARCH_SUBTITLES) =>
    LET tried == hloc.attempts
    IN /\ Len(tried) <= Len(hloc.search_languages)
       /\ \A k \in 1..Len(tried) : tried[k].language = hloc.search_languages[k]
       /\ \A k \in 1..(Len(tried) - 1) : tried[k].downloaded = 0
       /\ hloc.downloaded_files # <<>> =>
            /\ hpc \in {"end", "done"}
            /\ DownloadLanguages = {tried[Len(tried)].language}
            /\ hloc.used_language = tried[Len(tried)].language
            /\ Len(hloc.downloaded_files) = tried[Len(tried)].downloaded
       /\ (hpc = "done" /\ hloc.downloaded_files = <<>>) =>
            \A j \in DOMAIN jobs : jobs[j].status = STATUS_FAILED
       /\ (hpc = "done" /\ hloc.defect = "none" /\ hloc.raised = NULL
             /\ \A k \in 1..Len(tried) : tried[k].downloaded = 0) =>
            \A j \in DOMAIN jobs :
              /\ jobs[j].status = STATUS_FAILED
              /\ jobs[j].error_message = NoSubtitlesMessage

\* C24 witness: two languages are configured, the first gave a download,
\* and the job ended without a search in the second
C24_Witness ==
  /\ hpc = "done"
  /\ hloc.job_type = JOB_TYPE_SEARCH_SUBTITLES
  /\ Len(hloc.search_languages) = 2
  /\ Len(hloc.attempts) = 1
  /\ hloc.downloaded_files # <<>>
  /\ \A j \in DOMAIN jobs : jobs[j].status = STATUS_COMPLETED

\* no video file next to the subtitle reaches 60 percent (or there is none)
NoVideoMatches == \A k \in 1..Len(hloc.videos) : hloc.videos[k] < 60

\* C25: a sync_subtitles job that gets as far as looking for its video file
\* (params, subtitle file and settings file are in order) and finds no video
\* file with a score of 0.60 or more never runs the alignment tool and ends
\* failed with the message that no matching video file was found
C25_NoVideoNoSync ==
  (hpc # "idle" /\ hloc.job_type = JOB_TYPE_SYNC_SUBTITLES
     /\ hloc.defect = "none" /\ NoVideoMatches) =>
    /\ hloc.tool_calls = 0
    /\ hpc # "tool"
    /\ hpc = "done" =>
         \A j \in DOMAIN jobs :
           /\ jobs[j].status = STATUS_FAILED
           /\ jobs[j].error_message =
                "No matching video file found for subtitle: movie.en.srt"

\* C25 witness: the best video file scored 59 percent and the job has ended
C25_Witness ==
  /\ hpc = "done"
  /\ hloc.job_type = JOB_TYPE_SYNC_SUBTITLES
  /\ hloc.defect = "none"
  /\ hloc.videos # <<>>
  /\ NoVideoMatches
  /\ hloc.best_score = 59
  /\ \A j \in DOMAIN jobs : jobs[j].status = STATUS_FAILED

\* C26: while the loop runs, cleanup_old_jobs is called at least once in
\* about an hour of loop operation: after an hour and some seconds the job
\* completed 10 days ago is gone from the store
C26_CleanupWithinTheHour ==
  clock >= HourMark + 3600 + 10 =>
    \A j \in DOMAIN jobs : jobs[j].completed_at >= clock - CleanupDays * SecondsPerDay

\* the limits of the job types in seconds, and the limit of any other type
StatedLimit(job_type) ==
  CASE job_type = "extract" -> 300
    [] job_type = "sup_to_srt" -> 600
    [] job_type = "translate" -> 1800
    [] job_type = "search_subtitles" -> 600
    [] job_type = "sync_subtitles" -> 1800
    [] job_type = "publish_subtitles" -> 600
    [] OTHER -> 600

\* the error_message that states a limit
StatedLimitMessage(job_type) ==
  CASE StatedLimit(job_type) = 300 -> "Job exceeded timeout of 300s"
    [] StatedLimit(job_type) = 600 -> "Job exceeded timeout of 600s"
    [] StatedLimit(job_type) = 1800 -> "Job exceeded timeout of 1800s"

\* C27: a job whose status is timeout has been running for strictly longer
\* than the limit of its job type (300, 600 or 1800 seconds by type, 600 for
\* any other type), and its error_message states that limit
C27_NoPrematureTimeout ==
  /\ \A t \in KnownJobTypes \cup {UnknownJobType} : JobTimeout(t) = StatedLimit(t)
  /\ \A j \in DOMAIN jobs :
       jobs[j].status = STATUS_TIMEOUT =>
         /\ jobs[j].started_at # NoTime
         /\ clock - jobs[j].started_at > StatedLimit(jobs[j].job_type)
         /\ jobs[j].error_message = StatedLimitMessage(jobs[j].job_type)

\* C27 witness: of two jobs started together, the one with the limit of 300
\* seconds is timeout and the one with the limit of 600 seconds, examined by
\* the same sweep, is still running
C27_Witness ==
  \E j, k \in DOMAIN jobs :
    /\ jobs[j].status = STATUS_TIMEOUT
    /\ StatedLimit(jobs[j].job_type) = 300
    /\ jobs[k].status = STATUS_RUNNING
    /\ StatedLimit(jobs[k].job_type) = 600
    /\ jobs[k].started_at = jobs[j].started_at
    /\ dpc = "count"

\* C28: after a failed call made with a credential, the persisted
\* configuration holds the time of the failure in last_error_at of that
\* credential, and still holds it after the rotation or provider switch of
\* the same attempt
C28_FailureRecorded ==
  [][FailedAttemptStep =>
       LET idx == ActiveIndex(settings.provider_keys[provider])
       IN settings_file'.provider_keys[provider][idx].last_error_at = clock]_vars

\* C29: update_job_status writes error_message exactly when it is given
\* one and result exactly when it is given one, whatever status it writes;
\* called with neither, it leaves both columns as they were
C29_ColumnsOnlyWhenGiven ==
  [][\A status \in Statuses, error_message \in ErrorArguments,
        result \in ResultArguments :
       UpdateStatus(1, status, error_message, result) =>
         /\ jobs'[1].status = status
         /\ jobs'[1].error_message =
              IF error_message = NULL THEN jobs[1].error_message ELSE error_message
         /\ jobs'[1].result = IF result = NULL THEN jobs[1].result ELSE result]_vars

\* C29 witness: a job holding an error_message and a result has been given
\* the status pending by a call without either argument
C29_Witness ==
  /\ 1 \in DOMAIN jobs
  /\ jobs[1].status = STATUS_PENDING
  /\ jobs[1].error_message # NULL
  /\ jobs[1].result # NULL

\* C30: no step of admission, status update, sweep or execution changes the
\* job_type, file_path, params or created_at of a stored job (its id is the
\* key it is stored under), and the job a thread hands its handler has the
\* job_type, file_path and params of the stored row
C30_CreationFieldsImmutable ==
  [][/\ \A j \in (DOMAIN jobs) \cap (DOMAIN jobs') :
          /\ jobs'[j].job_type = jobs[j].job_type
          /\ jobs'[j].file_path = jobs[j].file_path
          /\ jobs'[j].params = jobs[j].params
          /\ jobs'[j].created_at = jobs[j].created_at
     /\ \A j \in (DOMAIN exec') \cap (DOMAIN jobs') :
          /\ exec'[j].job.id = j
          /\ exec'[j].job.job_type = jobs'[j].job_type
          /\ exec'[j].job.file_path = jobs'[j].file_path
          /\ exec'[j].job.params = jobs'[j].params]_vars

\* C30 witness: a job created with params has been admitted and executed
C30_Witness ==
  \E j \in (DOMAIN jobs) \cap (DOMAIN exec) :
    /\ jobs[j].status = STATUS_COMPLETED
    /\ exec[j].state = "done"
    /\ jobs[j].params = json_dumps(SomeParams)
    /\ json_loads(exec[j].job.params) = SomeParams

\* C31: a queue never has more than one dispatcher loop alive, however the
\* calls of start_processor and stop_processor interleave
C31_OneLoopPerQueue ==
  \A q \in DOMAIN queues : Cardinality({t \in Loops : threads[t].queue = q}) <= 1

\* C32: the requests that find the module-level queue unset build one JobQueue
\* between them, one dispatcher loop is started, and all are given the same object
C32_OneQueueOneLoop ==
  /\ Len(queues) <= 1
  /\ Cardinality(Loops) <= 1
  /\ \A c, d \in Callers :
       callers[c].ret # 0 /\ callers[d].ret # 0 => callers[c].ret = callers[d].ret

\* C33: no job is handed to an execution unit more than once
C33_HandedOverOnce ==
  \A t, u \in Units : threads[t].job = threads[u].job => t = u

\* stop_processor of the queue q has returned, start_processor has not been
\* called since, and no earlier call of it is still under way
StoppedFor(q) ==
  /\ q \in stopped
  /\ \A c \in Callers :
       callers[c].call \in {"start_processor", "get_job_queue"} => callers[c].queue # q

\* C38: between the return of stop_processor and the next call of
\* start_processor the queue's loop starts no execution unit and moves no job
\* from pending to running
C38_NoStartAfterStop ==
  [][\A q \in DOMAIN queues :
       StoppedFor(q) /\ StoppedFor(q)'
         => /\ {t \in Units : threads[t].queue = q}'
                 = {t \in Units : threads[t].queue = q}
            /\ \A j \in DOMAIN jobs :
                 jobs[j].status = STATUS_PENDING /\ j \in DOMAIN jobs'
                   => jobs'[j].status # STATUS_RUNNING]_vars

\* C34: a job for which delete_job has returned true is not executed: no
\* execution unit exists for it when the route answers
C34_DeletedNeverExecuted ==
  (delpc = "return" /\ delRet) => delId \notin DOMAIN exec

\* the execution units whose handler has not ended
Executing == {j \in DOMAIN exec : exec[j].state = "running"}

\* C35: never more than max_parallel execution units are executing a handler
C35_UnitsWithinMaxParallel == Cardinality(Executing) <= max_parallel

\* C36: as long as the loop keeps running, every pending job is admitted in
\* the end, whatever value the settings endpoints gave max_parallel and
\* whatever the running jobs do
C36_PendingEventuallyAdmitted ==
  \A j \in 1..MaxWaiting :
    (j \in DOMAIN jobs /\ jobs[j].status = STATUS_PENDING)
      ~> (j \in DOMAIN jobs /\ jobs[j].status # STATUS_PENDING)

\* C37: every job set to running gets a terminal status in the end, also when
\* its unit never writes one; a status the unit did not write is timeout, and
\* a job whose unit is gone is not given another unit
C37_OrphansTimeOut ==
  /\ \A j \in 1..MaxWaiting :
       (j \in DOMAIN jobs /\ jobs[j].status = STATUS_RUNNING)
         ~> (j \in DOMAIN jobs /\ jobs[j].status \in TerminalStatuses)
  /\ [][\A j \in (DOMAIN jobs) \cap (DOMAIN jobs') \cap (DOMAIN exec) :
          /\ (jobs[j].status = STATUS_RUNNING /\ jobs'[j].status # STATUS_RUNNING
              /\ exec'[j] = exec[j])
               => jobs'[j].status = STATUS_TIMEOUT
          /\ exec[j].state = "died" => exec'[j] = exec[j]]_vars

\* C37 witness: a job whose unit died without writing a status has been set
\* to timeout by the sweep
C37_Witness ==
  \E j \in DOMAIN exec :
    /\ exec[j].state = "died"
    /\ j \in DOMAIN jobs
    /\ jobs[j].status = STATUS_TIMEOUT

\* C39: the failover loop persists a rotation or a switch only when an attempt
\* with the new selection follows: when the failed attempt was the job's last,
\* the persisted provider and active credential are the ones that attempt used
C39_PersistedSelectionWasTried ==
  [][(FailedAttemptStep /\ tpc' = "return") =>
       /\ settings_file'.provider = provider
       /\ ActiveIndex(settings_file'.provider_keys[provider])
            = ActiveIndex(settings.provider_keys[provider])]_vars

====
